# TLA+ verification of the PXF bridge

This directory models and checks the C bridge between Greenplum/PostgreSQL and the
PXF service. It covers:

- the external-table bridge, `src/external-table/src/pxfbridge.c`;
- the foreign-data-wrapper bridge, `src/fdw/pxf_bridge.c`;
- the request header builder, `src/external-table/src/pxfheaders.c`, with
  `normalize_key_name` from `pxfutils.c`.

## The system

A scan or an insert owns one *bridge context* (`gphadoop_context`, or a
`PxfFdwScanState` / `PxfFdwModifyState`).

- **Start.** A start handler builds the URI and the header list, then opens a `churl`
  transfer. The headers come from `build_http_headers`, which appends them in blocks:
  1. the format block: `X-GP-FORMAT`, the COPY options parsed from the table's
     `fmtopts`, and the encoding;
  2. the schema (`add_tuple_desc_httpheader`);
  3. the projection (`add_projection_desc_httpheader`);
  4. the user check and the session headers;
  5. the location headers and the LOCATION options;
  6. the URI, the filter headers and `Connection: close`.

  For a read, the handler also probes the connection once.
- **Read.** Each read call loops on the blocking `churl_read` (`fill_buffer` /
  `FillBuffer`) until the buffer is full (or `minlen` bytes are in, in the FDW) or a
  read returns 0. On a 0 result the read call runs the connectivity check. That check
  raises an ERROR when the response ended in error.
- **Write.** A write hands its buffer to `churl_write` once.
- **Cleanup.** Cleanup releases the handle, the headers and the buffers. It may run
  after an ERROR in the middle of a start handler.

Each context is used by one backend. The only concurrency is between the worker and
the remote service that fills or drains the connection. The bridge models have two
actors:

- the worker, whose actions are the handlers;
- the service, which sends bytes one at a time and ends the response cleanly
  (`"done"`) or in error (`"failed"`).

The header modules model single calls. Each loop of the code is one step per
iteration.

## Modules

| Module | Code | State | Actions |
|---|---|---|---|
| `PxfReadStream` | what `pxfbridge.c` promises the executor (spec.md 4.5, 8) | bytes `produced` and `handed`, how the stream `ending` stands, the `reader` (`streaming`/`eof`/`closed`) | `Produce`, `Finish`, `Hand`, `ReportEof`, `Close` |
| `PxfBridge` | `pxfbridge.c` | `pc`, the read size `want`, fill pointer `ptr`, bytes `delivered` / `written`, `completed`, the `uri` history, each pointer of the context (`null`/`live`/`dangling`), the service (`srv`, `sent`, `consumed`) | `gpbridge_import_start`, `gpbridge_export_start`, `gpbridge_read` (entry), `fill_buffer` (one `churl_read` per step, with the zero read and the check of `gpbridge_read`), `gpbridge_write`, `gpbridge_cleanup`, `ServiceSend`, `ServiceEnd` |
| `PxfFdwBridge` | `fdw/pxf_bridge.c` | as above, with `minlen`/`maxlen` and the pointers of the modify state | `PxfBridgeImportStart`, `PxfBridgeExportStart`, `PxfBridgeRead`, `FillBuffer`, `PxfBridgeWrite`, `PxfBridgeCleanup`, service |
| `PxfHeaders` | `build_http_headers`, `add_location_options_httpheader`, `normalize_key_name` | the inputs (relation, format outcome, COPY options, whether the projection is sent, user, LOCATION keys, filter), the block `pc`, the option index `ix`, the headers, `data_encoding`, `relname`, `relnamespace` | `FormatBlock`, `ProjectionBlock`, `SessionBlock`, `LocationBlock`, `LocationOption`, `LocationOptionsDone`, `TailBlock` |
| `PxfCopyOptions` | format block of `build_http_headers`, `get_format_name`, `parseCopyFormatString` (PG < 9.4 build), `appendCopyEncodingOption` | the format code, the `fmtopts` tokens, the parse position, the option list, the header loop index, the headers, `data_encoding` | `GetFormat`, `ParseOption` (one iteration of the token loop), `ParseEnd`, `AppendEncoding`, `EmitOption`, `EmitDone` |
| `PxfCopyGrammar` | none: the reference grammar of `fmtopts` that the parse is checked against | (extends `PxfCopyOptions`) | none |
| `PxfTupleDesc` | `add_tuple_desc_httpheader` | the attributes, loop index `i`, `attrIx`, the headers appended | `SkipDropped`, `ReportAttribute` (one loop iteration), `ReportCount` |
| `SeqFilter` | none: `Filter(s, P)`, the subsequence of the elements of `s` in the set `P`, which is what `SelectSeq(s, LAMBDA e : e \in P)` is. It is written as a function defined by recursion over the prefixes of `s`, so that the prover can reason about it. The `PxfTupleDesc` properties select header families with it | none | none |
| `PxfProjection` | projection block of `build_http_headers`, `add_projection_desc_httpheader`, `add_attnums_from_targetList` | dropped flags, simple Vars, target expressions (whole-row Vars included), WHERE columns, what `extractPxfAttributes` returned, the headers | `BuildProjection` |

How the modules represent the code:

- **Loops are steps.** A loop of the code is one step per iteration, so a
  read-in-progress is a visible state (`pc = "Filling"`). That state is what the
  inductive proofs need.
- **Errors are failure states.** An ERROR raised inside a handler is a disjunct that
  moves to `"Failed"`, `"ScanFailed"` or `"error"`, keeping what the handler had
  already set. This is what the abort-time cleanup sees.
- **Data is abstract.** Header values are tags. An attribute name becomes its ordinal,
  a type name its OID, and a modifier its integer. An `fmtopts` string is the
  sequence of tokens `strtokx2` returns, with `NULL` at the end. The one conversion a
  property depends on, `normalize_key_name`, is modelled by what it does: it prefixes
  `X-GP-OPTIONS-` to the upper-cased key.
- **Composed blocks are representative.** In `PxfHeaders`, the format block appends
  `X-GP-FORMAT` and one `X-GP-OPTIONS-` header per COPY option. The schema and the
  projection append one header each. `PxfCopyOptions`, `PxfTupleDesc` and
  `PxfProjection` model their detail. Two outcomes are merged in `PxfHeaders`:
  - The `parseCopyFormatString` ERROR is raised after `X-GP-FORMAT` was appended at
    `pxfheaders.c:75`. It shares one failure with the `get_format_name` ERROR, which
    leaves no header. `PxfCopyOptions` keeps the two apart.
  - `projected` means that `X-GP-ATTRS-PROJ` is sent. It folds the projection gate
    and the early return at `pxfheaders.c:444`, taken when no column is counted.
- **Some definitions are spec-modelled.** These are parts whose code is not in this
  repository:
  - the remote service;
  - how PostgreSQL stores type modifiers;
  - the creation of the contexts;
  - `extractPxfAttributes`;
  - `churl_headers_override`;
  - `strtokx2` at the end of a string.

  PROJECT.json marks them `spec_modelled`.

## Runs

| Run | Checks | Result |
|---|---|---|
| `PxfBridge.cfg` | `TypeOK`, `EofOnlyAfterCleanEnd`, `ReleaseSound`, `ReadReturns`, `ReadStreamRefined` | pass |
| `PxfBridge_ShortRead.cfg` | `ShortReadCompletes` | violation: a short fill ended by end of stream returns with `completed` false and the connectivity check not run (`pxfbridge.c:100`), contrary to spec.md 4.5 |
| `PxfFdwBridge.cfg` | `TypeOK`, `EofOnlyAfterCleanEnd`, `ShortReadOnlyAtEnd`, `ReadReturns`, `ReadStreamRefined` | pass |
| `PxfFdwBridge_Release.cfg` | `ReleaseSound` | violation: `PxfBridgeCleanup` frees `uri.data` and `options` without clearing them, so a second call double-frees (`fdw/pxf_bridge.c:51-59`), contrary to spec.md 8 |
| `PxfHeaders.cfg` | `TypeOK`, `HeadersComplete`, `HeaderGroupsInSpecOrder` | pass |
| `PxfCopyOptions.cfg` | `TypeOK`, `ParseErrorsOnlyOnIllFormed`, `FormatOptionsSent` | pass |
| `PxfCopyOptions_Crash.cfg` | `NoNullTokenCompared` | violation: an `fmtopts` string that ends after `force`, `force not`, `fill` or `fill missing` hands `NULL` to `pg_strcasecmp` (`pxfheaders.c:671, 675, 751, 756`) |
| `PxfTupleDesc.cfg` | `TypeOK`, `ReportedColumnsExact`, `ModifiersRoundTrip` | pass |
| `PxfProjection.cfg` | `TypeOK`, `ProjectionCoversScanColumns` | pass |
| `PxfProjection_Exact.cfg` | `ProjectionIndicesExact` | violation: a column used only inside a non-simple expression is sent as `attno - 1` without the dropped-column shift (`pxfheaders.c:422`) |
| `PxfProjection_Count.cfg` | `ProjectionCountMatches` | violation: `X-GP-ATTRS-PROJ` counts list entries, not the index headers (`pxfheaders.c:437-451`) |
| `PxfProjection_WholeRow.cfg` | `ProjectionCoversWholeRow` | violation: a whole-row Var (attno 0) is filtered out at `pxfheaders.c:420`, so a projection sent because of other Vars or quals omits the columns the whole row needs |

What the properties say:

- **`EofOnlyAfterCleanEnd`.** No silent truncation: end of stream is reported only
  when the service ended cleanly and every byte it sent was returned.
- **`ReadStreamRefined`.** `PxfBridge` implements `PxfReadStream` under the mapping
  `ReaderOf`:

  | `PxfReadStream` | `PxfBridge` |
  |---|---|
  | `produced` | `sent` |
  | `handed` | `delivered` |
  | `ending` | `srv` |
  | `reader` is `closed` | `"Released"` |
  | `reader` is `eof` | `"Eof"` |

  `PxfFdwBridge` has the same mapping. So each read returns only bytes that were sent
  and not yet returned. Nothing is
  returned after end of stream. The response stops moving once cleanup has closed the
  handle.
- **`ReleaseSound`.** Nothing is released twice. A released context holds no pointer
  to freed memory.
- **`ReadReturns`.** Every read call returns.
- **`ShortReadOnlyAtEnd`.** The COPY callback contract: a read returns fewer than
  `minlen` bytes only after the response ended with nothing left on the wire.
- **`HeadersComplete`.** A finished build has:
  - each session, location, URI and `Connection` header exactly once;
  - the format and schema headers exactly when there is a relation;
  - the projection header exactly when its gate passed;
  - `X-GP-FILTER` exactly when there is a filter;
  - `X-GP-HAS-FILTER` always, set to `1` or `0` to match.
  No property checks that option keys are distinct. A LOCATION option named like a
  COPY option (`delimiter`) is sent as a second `X-GP-OPTIONS-DELIMITER`
  (`pxfheaders.c:531` and `:97`). spec.md 6 does not say which value should win, so
  PROJECT.json lists this as a hazard with no property.
- **`HeaderGroupsInSpecOrder`.** The headers are in the group order of spec.md 4.3 at
  every point of the build. So an ERROR leaves a prefix of that order.
- **`ParseErrorsOnlyOnIllFormed`.** `parseCopyFormatString` raises its parse error only
  on token strings that an independent recursive grammar (`Grammar`, in
  `PxfCopyGrammar`) rejects.
- **`FormatOptionsSent`.** The headers are `X-GP-FORMAT` and then one
  `X-GP-OPTIONS-<NAME>` per parsed option, in order, with `FORMAT csv` first for CSV.
  `data_encoding` is the table encoding.
- **`ReportedColumnsExact`.** The name headers list exactly the non-dropped columns,
  numbered from 0 without gaps, and `X-GP-ATTRS` is their number.
- **`ModifiersRoundTrip`.** For numeric, character, bit/time and interval types, the
  modifier headers decode to the declared parameters.
- **`ProjectionCoversScanColumns`.** When a projection is sent, it contains every
  simple-Var column and every WHERE-clause column. This is what the fallback on an
  unsupported WHERE clause protects.

Every property of a passing run has a mutant in PROJECT.json: a plausible bug in the
mapped code that TLC catches with that property.

### Bounds

- **Bridges.** The response is up to 3 bytes, the read sizes are 1 and 2 (the FDW uses
  `<<minlen,maxlen>>` pairs `<<1,2>>` and `<<2,2>>`), and the writes are 0 or 2 bytes.
  With these bounds, reads end full, short and on end of stream. A response can end in
  error after bytes were delivered. A fill spans several `churl_read`s.
- **`PxfHeaders`.** Two option keys, `delimiter` and `profile`, plus the empty key.
  There are up to two LOCATION options and one COPY option. Each Boolean input takes
  both values. This covers a key sent from both sources, and an empty key after a
  valid one. The empty key raises the `normalize_key_name` ERROR mid-loop.
- **`PxfCopyOptions`.** Every token string of up to 5 tokens over the keywords, `,`,
  `*` and one value, for text, csv, custom and an unknown format code (3.9 million
  states). Five tokens are enough for a two-column `force not null` list, for
  `force quote *` followed by another option, and for each truncation point of the
  multi-word options.
- **`PxfTupleDesc`.** Every relation of three attributes is checked. Each attribute is
  dropped or of one of five types (numeric, varchar, timestamp, interval, int4). The
  type parameters are 0 or 5. This covers a dropped column before, between and after
  live ones, and every branch of the modifier switch.
- **`PxfProjection`.** Three columns, up to two simple Vars, and up to two one-node
  expressions (a whole-row Var among them). There is up to one qual. That is enough
  for a dropped column in front of a projected one, for duplicates, and for a
  partially analysed WHERE clause.

## Fairness

The worker's `fill_buffer`/`FillBuffer` step is weakly fair. So are the service's
steps. The justification:

- `churl_read` blocks in the transport until bytes arrive or the transfer ends, so a
  read in progress is always resumed.
- The transport ends every transfer, either because the peer closes it or through
  curl's own timeouts.

Nothing else is assumed. In the FDW model (`PxfFdwBridge`), a scan's end
(`EndForeignScan` in `pxf_fdw.c`) is not in this repository, so the scan states
`"Eof"` and `"ScanFailed"` have no successor. That is why the FDW runs say
`CHECK_DEADLOCK FALSE`. The external-table runs (`PxfBridge.cfg`,
`PxfBridge_ShortRead.cfg`) keep deadlock checking. There `gpbridge_cleanup` is
enabled in every state but `"Filling"`, as the executor may call it at any time
outside a read, including again after `"Released"`. So every state has a successor,
and TLC also checks that the external-table model never stops. The header modules model one call, so
they stop once their headers are built or an ERROR was raised.

`PxfReadStream` has no fairness: the refinement is about safety only.

## Proofs (TLAPS)

`PxfBridge_proofs.tla` proves four theorems for all values of `MaxData`, `ReadSizes`
and `WriteSizes` that meet their `ASSUME`s:

- **`TypeCorrect`: `Spec => []TypeOK`.** It follows from `TypeInit` and from
  `TypeStep`, which has one case per action. The interesting case is `fill_buffer`:
  `ptr + k <= want` because `k` ranges over `1..(want - ptr)`.
- **`EofSafe`: `Spec => []EofOnlyAfterCleanEnd`.** The invariant alone is not
  inductive. The step into `"Eof"` is a zero-byte read, which only says that no byte
  is waiting on the wire. The proof therefore uses
  `IInv == TypeOK /\ consumed <= sent /\ BytesAccounted /\ EofOnlyAfterCleanEnd`,
  where `BytesAccounted` says every byte taken off the wire was either returned or is
  in the buffer of the read in progress. On a zero read with `ptr = 0`, this gives
  `delivered = consumed = sent`. `InitIInv` and `NextIInv` (one case per action) give
  `[]IInv`.
- **`Refinement`: `Spec => ReadStreamRefined`.** The proof has three parts:
  - `Init` maps to `AInit`.
  - `IInv /\ HandleInv /\ [Next]_vars` maps to a step of `PxfReadStream` or to a
    stutter (`StepRefines`, one case per action).
  - `PTL` combines them.

  A full buffer or a short fill is a `Hand` step. Its size stays within the bytes not
  yet handed because of `BytesAccounted` and `consumed <= sent`. The zero read into
  `"Eof"` is `ReportEof`, by the same argument as `EofSafe`. The strengthening
  `HandleInv` says the handle is NULL in `"Idle"` and in `"Released"`, and that the
  response is still open in `"Idle"`. It is needed for two reasons: the service
  answers only a live handle, so a service step never happens in a closed reader; and
  the reply to the probe of `gpbridge_import_start` is the response's first end.

- **`ReleaseSafe`: `Spec => []ReleaseSound`.** `ReleaseSound` alone is not
  inductive: it says nothing of a pointer that is `"dangling"`, and a second
  `gpbridge_cleanup` would release such a pointer again. The proof uses
  `RInv == TypeOK /\ NoDangling /\ ReleaseSound`, where `NoDangling` says every
  pointer of the context is `"null"` or `"live"`. This holds because the cleanup
  sets each pointer to NULL right after it frees it. With `NoDangling`, a cleanup
  releases only live pointers and leaves all of them NULL, so the next cleanup
  releases nothing.

`PxfFdwBridge_proofs.tla` proves the same for the FDW bridge, for every
`minlen <= maxlen`:

- **`TypeCorrect`.** `FillBuffer` never writes past `maxlen`.
- **`EofSafe`.** It uses the same `BytesAccounted` strengthening.
- **`ShortReadSafe`: `Spec => ShortReadOnlyAtEnd`.** This is an action property. It
  follows from `ShortReadStep`: a step out of `"Filling"` with fewer than `minlen`
  bytes cannot be a chunk read, because a chunk read leaves `"Filling"` only at
  `minlen`. So it is a zero read, and the response has ended with the wire empty.
- **`Refinement`: `Spec => ReadStreamRefined`.** It follows the `PxfBridge` argument,
  with the same `HandleInv`. A chunk read that reaches `minlen` hands over `ptr + k`
  bytes.

`ReadSizesAssumption` is cited only in the `PxfBridgeRead` case. Used globally, its
quantifier over pairs stalls the SMT backend.

`PxfHeaders_proofs.tla` proves two theorems about `build_http_headers` for every
`Upper`, `FmtKeys`, `LocKeys` and `MaxOpts` that meet `KeysAssumption` and
`OptionKeysAssumption`:

- **`OrderSafe`: `Spec => []HeaderGroupsInSpecOrder`.** The order alone is not
  inductive, because it does not say what the next block may append. The invariant
  `IInv` adds a bound: every header's group (`Rank`) is at most `Top[pc]`, the last
  group the blocks before `pc` can append. Each block then appends a sorted list
  whose groups start at `Top[pc]` or later. `ConcatSorted` shows that such a
  concatenation is sorted and bounded by the new `Top[pc']`. The tail block depends
  on the bound twice: the headers before it are in group 8 at most, so none of them
  is `Connection`, and so `churl_headers_override` appends `Connection` (group 9)
  instead of replacing a header in place. `IInv` also keeps the inputs in their
  types: `OptListsSeq` turns the option lists of `Init` into sequences of at most
  `MaxOpts` keys.
- **`TypeCorrect`: `Spec => []TypeOK`.** It follows from the same `IInv`.

Two facts the prover cannot derive from strings are stated in the model:

- `OptionKeysAssumption` says no `X-GP-OPTIONS-` name is a fixed header name. The
  prover treats strings as opaque, so it cannot see the prefix. TLC evaluates the
  assumption on every `PxfHeaders` run.
- The empty string is named `Empty`. SMT fails on any obligation that contains the
  literal `""`.

The arms of `Rank` are disjoint, so that `Rank` has one value for every header. A
TLA+ `CASE` with overlapping arms may take any true arm. TLC takes the first one,
which would hide the overlap.

`PxfHeadersCount_proofs.tla` proves **`CompleteSafe`: `Spec => []HeadersComplete`**
for the same constants. Its argument counts positions. `KeysIn(s, k)` is the set of
indices of `s` that hold key `k`. `Due(k)` says whether the blocks before `pc` must
already have appended `k`. The format and schema keys are due after the format block
of a build with a relation, `X-GP-ATTRS-PROJ` after a projection block that sent a
projection, and so on. The inductive invariant `CInv` extends the `IInv` of
`OrderSafe` with two facts:

- Outside `"error"`, every fixed key is either due and at exactly one index, or not
  due and at none.
- Once the build is done, `X-GP-HAS-FILTER` says whether there is a filter.

Each block appends a list. `ConcatKeys` splits `KeysIn` over a concatenation, and
`BlockKeys` (with the corollaries `BlockPlaces` and `BlockKeeps`) counts the keys of
one appended list. There is one lemma per block, from `ProjectionCount` to
`TailCount`. The tail block is the delicate one: `churl_headers_override` replaces
`X-GP-URI` in place if it is present and appends it otherwise, and `CInv` says it is
not present before the tail. `CountOf` turns "exactly one index" into the
`Cardinality(...) = 1` of `HeadersComplete`, using `FS_Singleton` and
`FS_EmptySet`.

`PxfCopyOptions_proofs.tla` proves **`TypeCorrect`: `Spec => []TypeOK`** of the
format block for every set of lexical units and every `MaxToks`. It assumes
`UnitsAssumption`: `strtokx2`'s end-of-string NULL is not one of the units. The
inductive invariant `IInv` adds three facts:

- The parse position stays at most one past the end of `toks`.
- The DefElem lists hold only names `normalize_key_name` knows. Only
  `appendCopyEncodingOption` makes the encoding option, and it carries the table's
  encoding.
- `ix = 1` until the emit loop starts.

`ParseOptionOutcome` has one case per branch of the keyword chain. It shows that an
iteration fails, crashes, or appends a parsed item and moves to a position no further
than one past the end. `ColListOutcome` shows this for the column lists. It rests on
`ListEndType`: the `CHOOSE` of the first stopping iteration is well defined, since
the iteration one past the end meets NULL, and `WFMin` with `NatLessThanWellFounded`
gives a least stopping iteration. The `RECURSIVE` grammar lives in `PxfCopyGrammar`,
which the MC module extends, so that this proof module does not reach it.

`PxfTupleDesc_proofs.tla` proves **`TypeCorrect`: `Spec => []TypeOK`** of
`add_tuple_desc_httpheader` for every `NAtts`, `TypeIds` and `Params`. TypeOK is not
inductive on its own. The strengthening is `attrIx <= i - 1`, together with the
appended headers being a sequence of `HeaderTuple`s.
`AttributeFacts` shows that an attribute that is not dropped has a type OID and an
integer `atttypmod`, by cases on its declared parameters. `AttributeHeadersType`
shows that its headers are well formed.

The same module proves the two properties of the run about what the service is told:

- **`ColumnsExact`: `Spec => []ReportedColumnsExact`**, for every `NAtts`, `TypeIds`
  and `Params`. `ReportedColumnsExact` speaks only of the state after `X-GP-ATTRS`, so
  it says nothing to carry through the loop. The inductive invariant is `ColumnsInv`.
  It says that the headers describe the attributes looked at so far:
  - `attrIx` is the number of non-dropped attributes among `1..i-1` (`KeptSoFar`);
  - the NAME headers are those attributes, numbered 0, 1, ... in order;
  - `X-GP-ATTRS` is there exactly when `done` holds, and then `i = NAtts + 1`.

  The step for `ReportAttribute` splits the family filter over `headers \o
  AttributeHeaders(...)` (`FilterConcat`). `AttributeHeadersFilter` gives what one
  attribute adds: its own NAME header, first and only (`FilterFirstOnly`), and no
  ATTRS header.
- **`ModifiersExact`: `ASSUME ParamsFit PROVE Spec => []ModifiersRoundTrip`.** The
  inductive part is `ModifiersInv`, which needs no hypothesis. For every index below
  `attrIx`, the TYPEMOD headers of that index are the values `TypmodValues` computes
  for the attribute kept under it, and the COUNT header is their number. No index at
  or above `attrIx` has any. `AttributeHeadersMods` shows that one attribute adds
  exactly this under its own index and nothing under any other.

  The decoding step is `TypmodRoundTrip`: `TypmodValues(a) = a.decl`. It holds only
  when the declared parameters fit the 16-bit fields that `>> 16` and `& 0xffff`
  extract: `ParamsFit`, every parameter below `65536 - VARHDRSZ`. Above that, a
  numeric scale carries into the precision and an interval precision is cut. This is
  no limit in practice, because PostgreSQL rejects a numeric precision above 1000 and
  an interval precision above 6. Character and bit lengths are not masked and
  round-trip whatever their size. But `Params` is one set for every type, so the
  theorem also leaves out character lengths of 65532 and more. The run's parameters,
  0 and 5, satisfy `ParamsFit`.

Both proofs state the families through `Filter` of `SeqFilter`. The run's properties
use it too, in place of `SelectSeq`, which the prover cannot unfold.
`SeqFilter_proofs.tla` proves the lemmas on `Filter` that the proofs cite:
`FilterType`, `FilterInSet`, `FilterEmpty`, `FilterAppend`, `FilterConcat`,
`FilterNone`, `FilterAll`, `FilterSingleton` and `FilterFirstOnly`. The library's
induction theorems take an operator parameter that the provers cannot instantiate.
So each induction here goes through `NatSetInduction`: `0 \in T` and closure under
`n + 1` give `Nat \subseteq T`, for a set `T` defined by the property. That lemma is
itself proved with `WFMin` and `NatLessThanWellFounded`. `FilterConcat` is proved by
induction on the length of its second argument, using `SequenceEmptyOrAppend`. Its
step moves the appended element past the concatenation with `AppendIsConcat` and
`ConcatAssociative`.

In both encoders the switch on an input is written so that its arms are disjoint. In
`parseCopyFormatString`, a keyword compare on a possibly-NULL token is `Keyword`, a
nested `IF`. In `add_tuple_desc_httpheader`, the `atttypmod > -1` guard is an `IF`
in front of the `switch`. These follow the code's first-match order. A `CASE` with
overlapping arms would let the prover take any true arm.

### Only model-checked

- **Liveness.** `ReadReturns` depends on fairness and `ENABLED`, which the prover does
  not handle.
- **`ModifiersRoundTrip` for a declared parameter of 65532 or more.** Such a
  parameter can only be a character or bit length, since PostgreSQL bounds numeric
  and interval precision. The theorem assumes `ParamsFit`, and the run's parameters
  are 0 and 5, so this case is neither proved nor checked.
- **Everything in `PxfProjection`.** The module uses `SetToSortSeq`, `FlattenSeq`
  and `Range` of `SequencesExt`. `SequencesExt` extends `Folds`, which declares
  `RECURSIVE` operators, and a module that reaches one loses the SMT backend. Its
  properties also rest on `SelectSeq`. Restated with `Filter`, they could reuse the
  lemmas of `SeqFilter_proofs`.
- **`ParseErrorsOnlyOnIllFormed` and `FormatOptionsSent` (`PxfCopyGrammar`).** They
  compare the parse with the `RECURSIVE` `Grammar`.
- **`NoNullTokenCompared`.** The run of this property finds a violation, which is a
  finding of the project.
- **`ReleaseSound` of `PxfFdwBridge`.** Its run finds a violation, which is a finding
  of the project.
- **Action properties of the encoders**, such as headers being only ever appended.
  None was added. Every plausible mutant of such a property also breaks an invariant
  of the same run, and TLC reports the invariant first.

## Not modelled

- **The rest of `pxfutils.c`.** This covers `get_authority`, `get_pxf_host`,
  `get_pxf_port`, `TypeOidGetTypename`, `GetNamespaceName`, `GetTraceId`, `GetSpanId`
  and `concat`. They do environment lookups, catalogue lookups and string formatting.
  The models reduce their results to a value.
- **The URI text.** The models keep only whether the URI is reset or appended to.
- **The `churl` library, `pxf_fdw.c`, `pxf_header.c` and `pxffilters.c`.** They are
  not in this repository. So what `churl_headers_append` does with the `NULL`
  `X-GP-SCHEMA-NAME` and `X-GP-DATA-ENCODING` values of a build without a relation
  is unknown. That case is listed as a hazard with no property.
- **The connectivity test programs under `automation/`.**
- **The pre-9.6 `FillBuffer`.** It is the same loop with `minlen = maxlen`.
- **The `PG_VERSION_NUM >= 90400` format branch.** It calls the server's own option
  parser, which is not in this repository.

## Plan for later work

- `PxfProjection` without `SequencesExt`: `Filter` in place of `SelectSeq`, and a
  sort written as a function. The lemmas of `SeqFilter_proofs` would then carry
  `ProjectionCoversScanColumns`.
- A variant of `PxfReadStream` whose `Hand` takes at least the reader's `minlen`
  unless the stream has ended. `PxfFdwBridge` would refine it, which would fold
  `ShortReadOnlyAtEnd` into the refinement.
- Reused contexts, to exercise `build_uri_for_write`, which appends to the URI without
  resetting it.
