# scimkit in TLA+

Specifications of [scimkit](../src/README.md), the Go library of SCIM 2.0
servers, clients and test doubles: TLA+ modules translated from the code, the
TLC configurations that check them on small instances, and proofs TLAPS checks
for every value of the constants.

    tlc -workers 2 -config MCScimServer.cfg MCScimServer     # a run
    tlapm ScimServerProofs.tla                               # the proofs of a module

`PROJECT.json` holds the index: the components, the runs, which definition
models which lines, the hazards and the properties aimed at them, the seeded
faults, the findings and the theorems.

## The system

A program embeds `server.New` over a `Store` per resource type; an identity
provider, or a program using `client`, sends it requests; `scimtest` wraps the
server into a mock and scripts the requests of identity providers against it.

| component | state it keeps | operations | talks to |
|---|---|---|---|
| `server/memstore` | resources, insertion order, per-id version counter, attribute index, one RWMutex | Create, Get, Replace (compare-and-swap), Delete, Patch, List | called by the handlers and by the embedding program |
| `server` handlers | 32 lock stripes; per request: the copy it read, the rounds of its PATCH loop | POST, GET, PUT, PATCH, DELETE of a resource | the Store's calls, one at a time |
| `server` lists | none | GET with a query, POST /.search: push-down or bounded scan, sort, page | `Store.List`, `filter.Match` |
| `server` frame | none once built | routing, bearer check, panic recovery, discovery documents | the handlers |
| `patch` | none (pure) | decode, normalise, apply operations to a resource | called by handlers, memstore and client |
| `filter` | none (pure) | lex, parse, print, match | called by lists, patch and client |
| `scim` | none (values) | decode, encode, project, schemas, errors | everyone |
| `client` | capability cache and its fetch in flight, cache of discovered types | CRUD, PATCH with fallback to PUT, List walk, membership helpers, retries | a SCIM target over HTTP |
| `scimtest` | recorder's window, chaos source, variables of a scenario | mock, record, inject failures, simulate, report | the server; a target |

What is hard, by component, and what makes it correct:

* **memstore.**  Four structures are kept in step by hand in every call.  They
  must describe the same resources (index, order, counters); uniqueness must
  hold whatever sequence of calls leads there; the indexed and the scanned list
  must agree; a version must name one content.
* **Handlers.**  Requests interleave between store calls; the stripe locks
  exclude PUT, DELETE and fallback PATCH of one id, not a native PATCH and not
  the embedding program.  Each request must take effect at one instant; nothing
  stale may be written; readOnly and assigned immutable attributes survive;
  what is persisted is valid; locks are released on every path; the PATCH loop
  ends.
* **Client capabilities.**  Goroutines share a fetch that may fail, hang, or
  outlive an invalidation; each has a context of its own.
* **Client requests.**  An answer may be lost after the target committed; a
  retry repeats a write; PATCH may turn into GET and PUT.  A call must take
  effect at most once, and what it reports must be true of the target.
* **Server lists.**  The same query may be served by the store, by a bounded
  scan, or by a mix: the answer must not depend on it, and a list must be
  refused rather than cut.
* **List walk.**  Pages are cut from a set that changes; targets cap pages or
  ignore `startIndex`.  A walk must end, and be exact when nothing changes.
* **PATCH engine.**  A long case analysis on structured values, with a
  mutability check of its own at every way in, rewritings for identity
  providers in front of it, and a working copy that shares values with the
  caller's.  A repeated message must change nothing, a tolerant profile must
  agree with the strict one, and what the server and the stores believe of a
  membership change must be what the engine does.
* **Filter language.**  The tree must be the grammar's, the printed text must
  read back as the tree, and a value filter must be satisfied by one element.
* **Codec.**  A projection must not depend on the order in which it names things;
  a response sent back must write what the client may write and nothing else.

## Modules

| module | what it is |
|---|---|
| `ListOps` | order and page of a list (`server/sort.go`, `memstore/list.go`) |
| `MemberPatch` | the PATCH operations on one multi-valued attribute |
| `MemStore` | `server/memstore`: one action per exported call |
| `StoreContract` | what `server/store.go` promises; `MemStore` implements it |
| `ResourceRules` | merge, mutability and validation rules (`pipeline.go`, `patch/apply.go`) |
| `ScimServer` | the handlers, interleaved at their store calls and lock operations |
| `AtomicServer` | every request served in one step; `ScimServer` implements it |
| `ClientCaps` | the client's capability cache |
| `ClientCalls` | the client's calls on a resource, over a network that loses and delays; the target is `AtomicServer` |
| `ListQuery` | one list request, from parameters to page; no state (uses `ListOps`) |
| `ListService` | list requests between changes of the store, answered by `ListQuery` |
| `ListWalk` | the client's `List` iterator and `Lookup`; a well-behaved target answers by `ListQuery` |
| `AttrData` | attribute characteristics, stored and received values, coercion (`scim/value.go`) |
| `PatchApply` | one PATCH operation on a resource: targets, mutability, add, replace, remove (`patch/apply*.go`) |
| `PatchDecode` | from a message to operations under a profile (`patch/decode.go`, `normalize.go`) |
| `PatchEngine` | a message decoded and applied step by step to a copy; its membership operations refine `MemberPatch` |
| `FilterLang` | the parser of filters and PATCH paths over tokens, and the printer |
| `FilterGrammar` | RFC 7644's grammar read by cutting a text, to compare the parser with |
| `FilterMatch` | validation and evaluation of a filter on a resource |
| `ResourceCodec` | decoding of bodies, projection, encoding (`scim/codec.go`, `path.go`) |
| `ResourceView` | a body received, and what a response shows of the resource it became |
| `ResourceQuery` | a body received, a filter parsed, printed and matched, the answer projected: composes the five above |
| `MCMemStore`, `MCScimServer`, `MCClientCaps`, `MCClientCalls`, `MCListService`, `MCListWalk`, `MCPatchEngine`, `MCResourceQuery` | instances for TLC |
| `Selection` | the elements of a sequence that pass a test, defined so that it can be reasoned about |
| `ListProofs` | lemmas about sequences, runs of a fold, sorting and paging, for the modules below |
| `MemStoreProofs`, `ScimServerProofs`, `ClientCapsProofs`, `ClientCallsProofs`, `ListServiceProofs`, `ListWalkProofs`, `PatchEngineProofs` | theorems about the module each is named for, and in the last about `ResourceView` |

A definition whose name holds an underscore (`Lock_NoWait`,
`BumpVersion_OnlyOnCreate`) is a seeded fault: the operator before it with the
change a plausible bug would make.  No specification uses it; substituted for
the original it makes the property `PROJECT.json` names fail, which is how each
property is known to depend on the code.

### MemStore

The mutex makes each call atomic, so a call is one action.  `store` is the
tuple of the Go struct's fields: `items`, `seq` (counters), `rank` and `order`,
`index`, and which attributes have a bucket in it.  Values are model values with a fold (two of them fold alike) and a
kind (not a string: no index term).  Callers keep the copies they were handed
(`held`) and send them back: compare-and-swap under a version they read, or
an empty token.  `Replace` compares tokens by their opaque part, checks
uniqueness, bumps the version and reindexes in the code's order; `Patch` is the
same over the outcome of the operation and does nothing when nothing changes.

### ScimServer and AtomicServer

A step is one store call with the handler's computation up to the next call, or
one lock operation.  `mode` says how the server was built: a store with a
native PATCH or not, one that tracks versions or not, strict or lenient, with or
without writes of the embedding program around the handlers.  Where a store
keeps no versions the server hashes the content to get a tag; `version` then
stands for that hash, and no store call compares it.  `pc` names the handler's
place by the store call that is next.  Every store call may also fail with an
internal error.  Identifiers of new resources are fresh (a UUID).

`AtomicServer` serves each request in one step against the resource as it then
is.  The refinement needs no auxiliary variable: the effect of a request is the
store call that settles its answer.  A PATCH that loses its swap starts over
and, in the abstract server, has not happened yet.

### ClientCaps

A step is a critical section of `capsMu`, an exchange with the target, the
closing of `done`, or a caller leaving its `select`.  A fetch is named by the
call that starts it.  `Config` tags each configuration with its generation at
the target and the number of invalidations when the target sent it: tags are
read by properties, never by the client.

### ClientCalls

A call goes through stages, each an HTTP request under the retry loop of
`do()`: a Create is a POST, a Patch is a PATCH, or a GET and a conditional PUT
when the target has no PATCH and the client was built to fall back.  An
*exchange* is a call, its stage and the attempt.  Once sent, its request may be
served at any later instant or never, and the caller may stop waiting at any
instant: a lost request, a lost answer, a timeout, and a request that arrives
after its retry are all interleavings of these.  `unavailable` stands for
everything that says nothing of the request's fate (network errors, timeouts,
5xx); 429 says the target did nothing.  A GET with its retries is one step,
because it changes nothing.  An answer nobody awaits is dropped.  The length of
the waits between attempts is left to the interleaving.

The target serves an exchange by the steps of `AtomicServer`, which
`ScimServer` is shown to implement: the client is checked against the
abstraction of the server, not against a mock of its own.  `Setup` is what the
program chose (fallback, replay of writes that are not idempotent) and what the
target is like (no PATCH, no body in its answer, refusing to remove what is
absent, no versions).

### ListQuery, ListService, ListWalk

`ListQuery` follows a request through `normalize`, the choice between push-down
and scan, and the page; a filter is a flag of the resource or ill-typed, a sort
key is a number or missing.  `Caps` is what the store says it can do, and `MaxInt`
the width of Go's `int`: the scan's bound plus one is `Wrapped`, and a page whose
end wraps (`WindowWraps`) cannot be sliced, so that `Cut` answers what
`withRecover` makes of the panic, an internal error.  `ListService` asks every request of every store of a
few resources and compares the answer with a definition of its own, on
positions, that neither sorts nor cuts.

`ListWalk` fetches page after page while resources are created, deleted and
changed.  Ghost variables say what happened to the list walked: whether it lost
a resource or had one moved (`removed`), whether it gained one before others
(`inserted`), what it held at first, and its smallest and largest length since.  The target
may be this server, over a store that lists or one that is scanned, or one that
ignores `startIndex`, echoes another, or keeps its total to itself.

### AttrData, PatchApply, PatchDecode, PatchEngine

A resource maps attributes to sequences of elements, and an element maps
sub-attributes to scalars; a single value is a sequence of at most one, a simple
attribute has its value under the sub-attribute `value`, and unassigned is the
empty sequence.  `Coerce` is Go's `coerceValue`: what a received value (an
object, a scalar, null, alone or in a list, of the right type or not) becomes,
or `Bad`.  `Convert`, `Fold` and `Unquote` are constants: what a scalar becomes
under a type, folded, and out of the string that some providers wrap it in.

`Decode` is the whole of Go's `Decode`, with the rewritings in their order, each
under its knob, and the refusals of the unrewritten and of the rewritten
operations.  `Perform` is one operation: its targets, its mutability checks and
the write, with the error each early return gives.  A filter of a path is a conjunction of
equalities, or the negation of one; those are the filters from which an element
can be synthesised, and the ones providers send.  `PatchEngine` applies
operations up to the first error and keeps account of what Go shares: `shared`
holds the attributes whose stored value the working copy has in common with the
caller's resource, and an operation on a sub-attribute of a single complex value
edits in place (`setSub`).  `AsMember` maps an operation on members to the
operation `MemberPatch` has, which `MemStore` and `ScimServer` use:
`MembersRefined` says the sets of members change alike.

Left out: the members `schemas` and `meta` of a pathless value, an extension
whose container is no object, the envelope's `schemas`, and `LenientPaths`,
which no built-in profile sets.

### FilterLang, FilterGrammar, FilterMatch, ResourceCodec, ResourceView, ResourceQuery

A text is a sequence of tokens; a word may be a path, a keyword or both, as in
`eq eq "x"`, and only its place says which.  The parser is the code's recursive
descent, with its loops, its one token of lookahead, its bound on depth and its
lenient `not`.  `FilterGrammar` reads the same text without a parser, by cutting
it at every `or`, then every `and`, and keeps all readings: that there is
exactly one is part of `ParseExact`.  Characters, escapes and the positions in
errors are below the tokens.

`FilterMatch` follows `match.go` from path resolution to the comparison of one
value; `Rank`, `Float` and `Within` are the orders of the types, the place of a
number among floats (where 8 and 9 are one, as 2^53 and 2^53 + 1 are) and the
relation of texts and their parts.

`ResourceCodec` decodes bodies whose keys are unique as spelled, in the order of
a Go map, which is any order: `DecodeResource` is the set of outcomes.  `Indexed`
is one step of `indexPaths`; `Selection` what an attribute shows.  The `schemas`
and `meta` members and keys of sub-attributes in two spellings are left out.

`ResourceView` receives one body and answers one query with the resource.
`ResourceQuery` takes the same two steps, under more guards, among steps that
leave those variables alone: what holds in `ResourceView` holds there too.

`ResourceQuery` lets a client start from a text, change up to two of its tokens,
parse it, print the tree, and parse it again; and decode a body, match it, and
show it under a projection.

## Runs

| run | instance | distinct states | shows |
|---|---|---|---|
| `memstore` | two callers, two ids, two insertions, three versions each | 0.12 M | index, order, counters, uniqueness; plans agree; a version names one content, no update is lost; implements `StoreContract` |
| `server_atomic` | two requests, every atomic mode, two outside writes | 2.8 M | atomicity, currency of swaps, validity, protected attributes, retry bound |
| `server_live` | two requests, the code's three PATCH rounds | 0.42 M | every request is answered and unlocks |
| `caps_shared` | two goroutines, two calls each, one reconfiguration, one invalidation | 0.35 M | one fetch at a time, own cancellation only, monotonic reads, calls return |
| `calls_once` | two calls, two attempts, three setups | 0.35 M | at most one effect, reported outcomes are true, fallback is PATCH |
| `list_answers` | stores of up to three resources, a bound of two, every `Caps`, 200 requests | 0.21 M | answers exact, `tooMany` included, no window wraps |
| `walk_changing` | three resources at first, two changes, five targets, two walks and a lookup | 0.10 M | a quiet walk is exact; gaps, repeats and `Lookup` explained; walks end |
| `patch` | seven attributes, one of every kind, messages of up to two operations and one beyond the limit, three profiles | 0.07 M | values stay canonical with one primary, retries change nothing, the caller's resource is untouched, selectors select, profiles agree, mutability binds, `MemberPatch` is refined |
| `query` | 18 texts and all within two edits of them, 7 bodies, 11 projections | 0.29 M | the parser is the grammar, printing reads back, elements match alone, integers exactly, projections and round trips exact |
| `patch_profiles`, `patch_immutable`, `caps_stale` | | | the findings below |

Bounds.  Every bound is a constant named in its module (`MaxOutside`,
`MaxCalls`, ...) and appears as a guard, or as a set of inputs.  Two requests
are enough for the handlers: an atomicity failure needs one handler between two
of its store calls and one other writer; the outside writer is a third.  Two
goroutines with two calls each give a waiter, a call that comes after a
cancelled one, and a call made while a released fetch is not yet closed; three
calls each (3.1 million states, safety only) show nothing more.  Two calls
of two attempts give a write that arrives after its own retry and after another
call's.  Three resources with pages of one and two give full, short and last
pages, ties and missing keys; `MaxFilterResults` is below, at and above what is
stored.  `MaxInt` in `MCListService` is 4, the end of the longest page that
begins at the third resource; with 3, `AnswerExact` fails on that page.  No walk comes to `MaxPages`.  Two operations let one undo, repeat or
build on the other, on each attribute by itself: operations meet only in the
attribute they share, and the working copy is per attribute.  Two edits reach
from the texts every way to misplace, drop or double a keyword or a bracket
around two clauses; `MaxDepth` is 4 where the code has 64, so that texts reach
it.  In `MCResourceQuery` each characteristic the codec and the evaluator tell
apart has an attribute.

Fairness.  The server's: weak fairness of each request's own steps, that is of a
goroutine that can run; a mutex has finitely many contenders here and each
releases it, and Go's mutex hands over to a starving waiter.  Nothing forces a
request to arrive or the embedding program to write.  The client's: weak
fairness of a waiter's wake-up, of publishing and of closing; the target's
answer is *not* fair, it may never come (the HTTP timeout is the user's to set).
The walk's: each exchange ends, whatever the target answers.  `ListWalk` states
it on the counting of pages, which only `Fetch` does, and which is enabled
exactly when `Fetch` is.  `ClientCalls` has no fairness and no liveness
property: its attempts are bounded by a counter, which `TypeOK` bounds.  `PatchEngine`
and `ResourceQuery` are sequential programs that stop.

Deadlock is checked where the system should never stop (`ScimServer` has an
explicit `Rest` step once all is answered).  It is switched off where callers
have made all their calls and stop, and in runs that look for a violation.

## Findings

1. `patch_profiles`: a pathless replace that carries an extension's container
   under its URN is refused with `invalidPath` by the default profile, because
   the expansion takes the URN for a path; the strict profile applies it.
2. `patch_immutable`: a pathless add of null takes the value of an assigned
   immutable attribute away.
3. `caps_stale`: `Capabilities` called after `InvalidateCapabilities` can return
   and cache what the target sent before it.

More disagreements with the documents show in the models, where the properties
say what holds in spite of them.

* Strict validation before a native PATCH sees a copy (`PreflightStep`): two
  PATCHes together can leave a required attribute unassigned, where
  `server/store.go:89-92` says rules hold "on PATCH exactly as on PUT".
  `StoredAreValid` speaks of stores without a native PATCH.  It says nothing of
  the order of a PUT's merge and validation: `Valid` looks at each attribute by
  itself, and both servers take that order from `PutError`.
* A `DELETE` with `If-Match` checks a copy and deletes by id (`DeleteStep`): a
  native PATCH in between is deleted with it.
* The fallback of `EnsureMember` to PUT writes a present member's group back
  under a new version (`PutBack`), where `client/groups.go:19-21` says it "changes
  nothing".
* `Stalled` compares a page's length and its first resource: when a resource
  moves in front of the cursor, `List` reports a target that honours
  `startIndex` as one that does not (`client/errors.go:16-18`).
* `not not pr` (of an attribute named `not`) and a bare `not` at the depth limit
  parse leniently to trees whose text no longer parses, where `filter/ast.go:80-81` says that it does:
  `PrintedReadsBack` asks only that it is never another tree.
* An integer literal outside int64 is compared as a float (`CompareNumber`),
  where the comment at `filter/match.go:508-512` says only fractional literals are.
* The tag of a resource without a version hashes its default projection, not the
  "unprojected form" of `server/etag.go:12-14`: a change of a value that is
  shown only on request, or never, leaves the tag.
* A sub-attribute of a multi-valued attribute does not resolve as a projection
  path (`PathResolves`): `attributes=emails.value` shows no emails.
* `mergeComplex` checks no mutability of sub-attributes; `MutabilityKept` speaks
  of attributes, and of the sub-attributes written through a value filter.

Three are outside the runs' instances.
`memstore` indexes strings only (`Terms`), so a unique attribute of another type
is not enforced although the comment of `New` says so: `UniqueHeldOnce` speaks
of strings.  With `MaxFilterResults` at the largest `int` the scan asks for
a negative count (`Wrapped`), which a store may take for a count-only query: the
list is then answered empty, and `AnswerExact` fails.  And with `MaxPageSize` so
near the largest `int` that the end of a page beyond the first resource is not
one (`offset+count` in `server/engine.go:91`, `from+count` in
`server/memstore/list.go:113`), a request for such a page makes the slice panic and is answered
500 (`Cut`): `AnswerExact` fails there as well.

## Proofs

The theorems hold for every value of the constants that meets the `ASSUME`s of
the modules: every set of identifiers, attributes, values, callers, calls and
requests, every schema, and every bound.  TLC evaluates those assumptions on
each instance.

* **MemStore.**  The inductive invariant joins the type of the store to: the
  index holds exactly the entries of the stored resources; the order is the
  enumeration of ids by rank; each stored version is its counter; the copies
  callers hold are of versions not newer than the counter, and equal in content
  when equal in version.  Uniqueness follows from the index being exact:
  `CheckUnique` looks only at the index.  `StoreImplementsContract` maps each
  call to a step of `StoreContract`.  `ListPlansCorrect` needs no induction but
  that the clock of insertions stays an int (`ClockHolds`), so that no page the
  property asks for wraps: of some resources there is one list in the order of
  their ranks (`OneByRank`), and both the indexed and the scanned plan are such
  a list.
* **ScimServer.**  `IInv` is `TypeOK` and that a request between its read and
  its write holds its stripe (`LocksHeld`), that a handler is only where its
  kind of request goes (`HandlersOnCourse`), that ids of creates in flight are
  fresh (`CreatesFresh`), and that the copy a handler is about to write from was
  one the rules accepted, is never newer than what is stored, and, when nobody
  can bypass the locks, is what is stored (`CopiesUsable`).  The last is what
  makes the refinement go through: when the swap succeeds, or the lock
  excludes every writer, the copy is current, so the write computed from it is
  the atomic server's.  `AtomicityCorrect` assumes that each mode in `Modes`
  either tracks versions or has nobody bypassing the stripe locks; without that
  it is false: a PUT writes over what a native PATCH, or the embedding program,
  stored after the PUT's read.
* **ClientCaps.**  The slot names the one fetch that has not published, and the
  cache is empty while there is one (`SlotHeld`); a fetch is waited for only once
  it began (`FetchesFresh`); and no configuration that a caller has, or can be
  handed without an exchange, is newer than the target's, the cached one, or one
  a fetch is about to publish (`NewerLater`).  The last gives `MonotonicReads`.
* **ClientCalls.**  What is sent is what was asked for, or a PUT computed from the
  one copy a call reads (`SentAsAsked`, `PutsOneCopy`: a copy whose version
  names its content, and none newer is stored); without permission to replay,
  nothing is sent again unless it was refused (`RepeatsRefused`); what a write
  that was carried out leaves behind forbids a second (`Spent`: the resource is
  gone, or its version has passed the one a PUT names); a patch that was carried
  out shows in its answer (`PatchesShow`); and a call that succeeded has an
  exchange to show for it (`OutcomesBacked`).  The target is `AtomicServer`,
  whose steps are used as they stand.
* **ListService.**  The answer is the one `Respond` gives for the store as it
  is, which holds at most `MaxRows` resources, so that no window wraps
  (`NoWindowWraps`).
  `AnswerCorrect` then counts: the place of a resource in the list asked for is
  the number of those that precede it, filtering and sorting put each at its
  place, a page is an interval of places, and the scan's extra row decides
  `tooMany`.
* **ListWalk.**  `QuietInv`: while nothing changes, what was yielded is the
  stretch of the list from the query's first index up to the cursor.  While no
  resource left or moved, each that was there at first was yielded or lies at
  the cursor or beyond (`CoverInv`); while none arrived before others or moved,
  nothing was yielded twice or will be (`OnceInv`).  `LookupInv`: the cursor of a
  lookup counts what it was handed, and the list's smallest and largest length
  bound that.
* **ResourceView.**  `ViewSafe` and `SendsBackSafe`, in `PatchEngineProofs`, which
  has the lemmas about coercion.  The index of a list of paths is a function of
  the set of its paths (`IndexIs`): whichever way a whole and its parts are
  ordered, the whole wins.  So each attribute shows what the query names
  (`SelectionIs`), and what is sent is the visible part of a value, which reads
  back as itself (`SentReadsBack`, `AttributeReadsBack`).  Over all orders a body
  is read into the assignments that pick one member per attribute
  (`AssignmentsAre`), and a response has one member per attribute: one outcome.
  The inductive invariant `Shows` is that the resource holds stored values and
  the view is its encoding.
* **PatchEngine.**  `InputSafe`: what the working copy shares with the caller's
  resource is what the caller's resource holds, and edits in place touch only
  single complex values, which are never shared (`Sharing`).  `TypeCorrect` goes
  from `Coerce`, whose results are canonical whatever was received, through
  each table of add, remove and replace, for operations in the form `Decode`
  leaves them (`Ready`, `DecodedOps`): every profile's rewritings are followed.
  `MutabilitySafe` shows at each write site what it keeps.
  `MemberPatchRefined` takes the member set through each table and finds
  `MemberPatch`'s operation.  `SelectorsExact` follows the removal's selectors
  through decoding, one operation each, and shows that what is left after some
  is what none of them matches (`Taking`).  `RetriesSafe` shows of each table
  that it changes nothing on what it returned: stored values are coerced to
  themselves, elements that were appended leave only duplicates to append,
  elements found by a filter are found again and hold what was sent, an element
  made up for a filter is found the second time, and the attributes of an object
  settle one by one.  `ToleranceSafe` compares two runs.  A value `Coerce` takes
  is one that unquoting and unwrapping leave as it is (`ValueStays`,
  `UnwrapStays`), so an operation that succeeds under the strict profile does
  the same under any other, table by table, and key by key when it has no path
  (`PerformedTyped`).  A profile that expands turns an operation into itself, or
  into none when its object names nothing (`ExpandedSame`); so after each
  operation the strict run is where the other one is after what that operation
  became (`Tolerated`).  The specification takes one operation at a time:
  `Following` says that the working copy is the run's state after those done.

Assumptions of single theorems: `AnswerCorrect`, `LookupCorrect`, `QuietExact`
and `DriftCorrect` take `MaxFilterResults < MaxInt`, without which the scan's
`MaxFilterResults + 1` wraps and they are false; `AnswerCorrect` also takes
`MaxRows + MaxPageSize <= MaxInt + 1`, without which the page that begins at the
last resource may wrap and it is false; `AtomicityCorrect` is above.

Recursion is by recursive functions and the folds of the community modules, and
the installed provers have no induction over a predicate.  What a loop does is
proved by a least counterexample: `Least` picks the first number at which a set
fails, and `UpTo` turns "holds at 0, and at k + 1 when at k" into a fact about
all of `0..n`, with the property given as a set of numbers.  `FoldRuns` says of a
fold that it is the last state of a run, a function from the steps taken.
`SelectSeq` and `SortSeq` have no definition a prover can expand:
`Selected` (a fold) and `SortResources` (the arrangement, chosen) stand in for them.

Proof attempts changed the models where these were wrong or said too much:

* Of an attribute the target takes as immutable, and hands out no versions for,
  the fallback's PUT that leaves it out does not clear it, though the call
  succeeds: `SuccessIsReal` leaves that case out.
* `Nil`, `Null`, `Bad`, `Absent` and `Garbled` must differ from each other and
  from values, errors and filters, stored forms are stable under `Convert` and
  compare as what was sent for them (`compareValue`), unquoting rewrites only
  what the type would refuse (`coerceScalar`), and received values have the
  shapes of JSON: the assumptions say it now.  So do those of the codec: what
  `Wire` writes of a stored value reads back as that value, attributes are
  finitely many and named by strings, and a container that is no object is no
  set of members.
* `Lookup` asks for the first page: a query of its own has no `startIndex`.
* What a walk starts from has each id once.
* `RetrySafe` had three exceptions nobody had listed.  A value filter on a
  sub-attribute the attribute does not define finds nothing; under the Entra
  profile the element synthesised for it loses the seed, so each retry makes
  up another one (`Unfindable`).  A write of null through a filter that asks for
  nulls only may empty, and so drop, the very element it found
  (`SelfDefeating`).  And a write below an assigned immutable attribute is
  refused even with the value it has (`BelowImmutable`), as
  `checkImmutablePathed` documents.  `BareImmutable` leaves out only an element
  sent by itself, which `checkImmutableAttr` does not wrap.

Only model-checked: liveness (`AllAnswered`, `CallsReturn`, `WalkEnds`), which
TLAPS does not reach; and what `ResourceQuery` says of filters (`ParseExact`,
`PrintedReadsBack`, `MatchSound`), whose parser and evaluator are recursive by
operators, over a grammar of unbounded depth.

## Plan

Everything planned is modelled and checked, and each component but the filter
language has its invariants proved.  What is left is the recorder's window in
front of chaos, and the simulator's order of steps.

## Not modelled

Generated schema data and its generator, the corpus of recorded requests, the
command line, routing and middleware: stateless, or data.  The client's
discovery of custom types: one mutex held across a sequential fetch, which
leaves nothing to interleave.  The mock, its recorder and chaos, and the
scenario simulator: test doubles around the parts modelled here, planned.  Below
the models: the characters of JSON, filters and errors; the builders' conversion
of Go values; the typed views of User and Group; schema documents.
Cryptographic and timing aspects of the bearer check are out of scope.
