----------------------------- MODULE CWorkspace -----------------------------
(***************************************************************************)
(* The memory of a compression context, or of a dictionary that is ready   *)
(* for compression (zstd_cwksp.h and its use in zstd_compress.c). One      *)
(* allocation holds objects and tables at its low end, buffers at its high *)
(* end, and is used again for frames with other parameters. Tables are not *)
(* cleared for every frame: tableValidEnd says up to where memory holds    *)
(* only indexes below the one the next frame begins with, and              *)
(* initOnceStart from where on memory was written at least once.           *)
(*                                                                         *)
(* An address has "none" when nothing was written since malloc, "index"    *)
(* when its value is an index below the current one, "data" otherwise.     *)
(* The workspace is not static, no redzones are laid around allocations,   *)
(* and no sequence producer is registered.                                 *)
(***************************************************************************)
LOCAL INSTANCE Integers
LOCAL INSTANCE Sequences
LOCAL INSTANCE Parsing

CONSTANTS
  ALIGNMENT_BYTES,      \* 64
  PointerSize,          \* sizeof(void*)
  TOOLARGE_FACTOR,      \* 3: how many times too large is wasteful
  TOOLARGE_MAXDURATION, \* 128: for how many frames that is accepted
  Starts,               \* where malloc may place a workspace
  Objects,              \* sizes of two block states and tmpWorkspace
  CDictObjects,         \* sizes of a CDict, its content and its entropy workspace
  Requests,             \* what the parameters of a frame ask for: see NeededSpace
  CDictRequests         \* and those of a CDict

CWorkspaceAssumption ==
  /\ {ALIGNMENT_BYTES, PointerSize} \subseteq Nat \ {0} /\ ALIGNMENT_BYTES % PointerSize = 0
  /\ \A start \in Starts : start \in Nat \ {0} /\ start % PointerSize = 0
  /\ \A sizes \in {Objects, CDictObjects} : \A i \in DOMAIN sizes : sizes[i] \in Nat /\ sizes[i] % PointerSize = 0
  /\ \A r \in Requests \cup CDictRequests : \A i \in DOMAIN r.tables : r.tables[i] % ALIGNMENT_BYTES = 0
  /\ \A r \in CDictRequests : r.opt = <<>> /\ r.aligned = <<>> /\ r.buffers = <<>>

VARIABLES
  holder,   \* "cctx" or "cdict"
  ws,       \* the ZSTD_cwksp
  mem,      \* what the addresses of the workspace hold
  made,     \* what was reserved: kind, address (NULL when it failed) and size
  ready     \* whether the last reset was without an error

vars == <<holder, ws, mem, made, ready>>

NULL == 0

Held == [ws |-> ws, mem |-> mem, made |-> made]

LOCAL Least(a, b) == IF a <= b THEN a ELSE b

\* The phases.
objects == 0
aligned_init_once == 1
aligned == 2
buffers == 3

Align(size, align) == ((size + align - 1) \div align) * align
Sum(sizes)         == ForEach(sizes, 0, LAMBDA a, b : a + b)
AlignedSum(sizes)  == ForEach(sizes, 0, LAMBDA a, b : a + Align(b, ALIGNMENT_BYTES))

\* Not the code: room for aligning one end.
sizeof_with_one_slack(r) == Sum(r.tables) + AlignedSum(r.opt) + ALIGNMENT_BYTES + Align(r.tag, ALIGNMENT_BYTES)

\* ZSTD_sizeof_matchState: the tables, at any rate the room for aligning both ends of what is
\* not an object.
sizeof_matchState(r) ==
  Sum(r.tables) + AlignedSum(r.opt) + 2 * ALIGNMENT_BYTES + Align(r.tag, ALIGNMENT_BYTES)

\* A request has the sizes of the tables for hashes, chains and hashes of three bytes, of the
\* tags of rows, of the statistics of the optimal parser, of sequences and what long distance
\* matching has aligned, and of buffers.
NeededSpace(r) == Sum(Objects) + sizeof_matchState(r) + AlignedSum(r.aligned) + Sum(r.buffers)
CDictSpace(r)  == Sum(CDictObjects) + sizeof_matchState(r)
-----------------------------------------------------------------------------
(* The workspace. s has ws, mem and made.                                    *)

Zeroed == [workspace |-> NULL, workspaceEnd |-> NULL, objectEnd |-> NULL, tableEnd |-> NULL, tableValidEnd |-> NULL,
           allocStart |-> NULL, initOnceStart |-> NULL, allocFailed |-> FALSE, oversizedDuration |-> 0, phase |-> objects]

initialAllocStart(w) == w.workspaceEnd - (w.workspaceEnd % ALIGNMENT_BYTES)
available_space(w)   == w.allocStart - w.tableEnd
size_of(w)           == w.workspaceEnd - w.workspace
used(w)              == (w.tableEnd - w.workspace) + (w.workspaceEnd - w.allocStart)

Reserved(s, kind, at, size) == [s EXCEPT !.made = Append(@, [kind |-> kind, at |-> at, size |-> size])]
Failed(s, kind, size)       == [Reserved(s, kind, NULL, size) EXCEPT !.ws.allocFailed = TRUE]
Put(s, where, what)         == [s EXCEPT !.mem = [a \in DOMAIN @ |-> IF a \in where THEN what ELSE @[a]]]

init(start, size) ==
  LET end == start + size
  IN [Zeroed EXCEPT !.workspace = start, !.workspaceEnd = end, !.objectEnd = start, !.tableEnd = start,
                    !.tableValidEnd = start, !.allocStart = end - (end % ALIGNMENT_BYTES),
                    !.initOnceStart = end - (end % ALIGNMENT_BYTES)]

\* Leaving the phase of objects aligns the start of the tables.
advance_phase(w, phase) ==
  LET start == Align(w.objectEnd, ALIGNMENT_BYTES)
      left  == [w EXCEPT !.tableValidEnd = w.objectEnd, !.initOnceStart = initialAllocStart(w)]
  IN CASE phase <= w.phase -> [ok |-> TRUE, ws |-> w]
       [] phase > w.phase /\ w.phase # objects -> [ok |-> TRUE, ws |-> [w EXCEPT !.phase = phase]]
       [] phase > w.phase /\ w.phase = objects /\ start > w.workspaceEnd -> [ok |-> FALSE, ws |-> left]
       [] OTHER -> [ok |-> TRUE, ws |-> [left EXCEPT !.objectEnd = start, !.tableEnd = start,
                                                     !.tableValidEnd = start, !.phase = phase]]

\* Not the code: what is valid for tables goes on below a new allocation.
reserve_over_tables(s, kind, bytes) ==
  LET alloc == s.ws.allocStart - bytes
  IN IF alloc < s.ws.tableEnd THEN Failed(s, kind, bytes)
     ELSE [Reserved(s, kind, alloc, bytes) EXCEPT !.ws.allocStart = alloc]

\* From the end down. Where the new allocation meets what was valid for tables, it is not any more.
reserve_internal_buffer_space(s, kind, bytes) ==
  LET alloc == s.ws.allocStart - bytes
  IN IF alloc < s.ws.tableEnd THEN Failed(s, kind, bytes)
     ELSE [Reserved(s, kind, alloc, bytes) EXCEPT
             !.ws.tableValidEnd = IF alloc < @ THEN alloc ELSE @, !.ws.allocStart = alloc]

reserve_internal(s, kind, bytes, phase) ==
  With(advance_phase(s.ws, phase),
       LAMBDA a : CASE bytes = 0 -> [s EXCEPT !.ws = a.ws]
                    [] bytes # 0 /\ ~a.ok -> Reserved([s EXCEPT !.ws = a.ws], kind, NULL, bytes)
                    [] OTHER -> reserve_internal_buffer_space([s EXCEPT !.ws = a.ws], kind, bytes))

reserve_buffer(s, bytes)    == reserve_internal(s, "buffer", bytes, buffers)
reserve_aligned64(s, bytes) == reserve_internal(s, "aligned", Align(bytes, ALIGNMENT_BYTES), aligned)

\* Only what was never reserved in this way before is cleared.
reserve_aligned_init_once(s, bytes) ==
  LET size == Align(bytes, ALIGNMENT_BYTES)
      Cleared(t, ptr) ==
        IF ptr = NULL \/ ptr >= t.ws.initOnceStart THEN t
        ELSE [Put(t, ptr .. Least(t.ws.initOnceStart, ptr + size) - 1, "index") EXCEPT !.ws.initOnceStart = ptr]
  IN With(reserve_internal(s, "initOnce", size, aligned_init_once),
          LAMBDA t : IF size = 0 THEN t ELSE Cleared(t, t.made[Len(t.made)].at))

reserve_table(s, bytes) ==
  With(advance_phase(s.ws, aligned_init_once),
       LAMBDA a : CASE ~a.ok -> Reserved([s EXCEPT !.ws = a.ws], "table", NULL, bytes)
                    [] a.ok /\ a.ws.tableEnd + bytes > a.ws.allocStart -> Failed([s EXCEPT !.ws = a.ws], "table", bytes)
                    [] OTHER -> [Reserved(s, "table", a.ws.tableEnd, bytes) EXCEPT
                                   !.ws = [a.ws EXCEPT !.tableEnd = @ + bytes]])

reserve_object(s, bytes) ==
  LET end == s.ws.objectEnd + Align(bytes, PointerSize)
  IN IF s.ws.phase # objects \/ end > s.ws.workspaceEnd THEN Failed(s, "object", bytes)
     ELSE [Reserved(s, "object", s.ws.objectEnd, bytes) EXCEPT
             !.ws.objectEnd = end, !.ws.tableEnd = end, !.ws.tableValidEnd = end]

mark_tables_dirty(s) == [s EXCEPT !.ws.tableValidEnd = s.ws.objectEnd]
mark_tables_clean(s) == [s EXCEPT !.ws.tableValidEnd = IF @ < s.ws.tableEnd THEN s.ws.tableEnd ELSE @]
clean_tables(s)      == mark_tables_clean(Put(s, s.ws.tableValidEnd .. s.ws.tableEnd - 1, "index"))
clear_tables(s)      == [s EXCEPT !.ws.tableEnd = s.ws.objectEnd, !.made = SelectSeq(@, LAMBDA m : m.kind # "table")]

clear(s) ==
  [s EXCEPT !.ws.tableEnd = s.ws.objectEnd, !.ws.allocStart = initialAllocStart(s.ws), !.ws.allocFailed = FALSE,
            !.ws.phase = IF @ > aligned_init_once THEN aligned_init_once ELSE @,
            !.made = SelectSeq(@, LAMBDA m : m.kind = "object")]

check_too_large(w, space) == available_space(w) >= space * TOOLARGE_FACTOR
check_wasteful(w, space)  == check_too_large(w, space) /\ w.oversizedDuration > TOOLARGE_MAXDURATION

\* It is only compared with the largest duration: it need not be counted beyond that.
bump_oversized_duration(w, space) ==
  [w EXCEPT !.oversizedDuration = IF ~check_too_large(w, space) THEN 0
                                  ELSE IF @ > TOOLARGE_MAXDURATION THEN @ ELSE @ + 1]
-----------------------------------------------------------------------------
(* Indexes that begin anew: those that are in memory may be too large now.   *)

Addresses(s, kinds) ==
  UNION {s.made[i].at .. s.made[i].at + s.made[i].size - 1 : i \in {j \in DOMAIN s.made : s.made[j].kind \in kinds}}

RestartedBut(s, tables) ==
  [s EXCEPT !.mem = [a \in DOMAIN @ |-> IF @[a] = "index" /\ a \notin tables THEN "data" ELSE @[a]]]
Restarted(s) == RestartedBut(s, {})

Zeroes(t) == LET last == t.made[Len(t.made)] IN Put(t, last.at .. last.at + last.size - 1, "index")

\* The table of tags of a CDict is always cleared.
TagsReserved(s, r, forCCtx) ==
  CASE r.tag = 0 -> s
    [] r.tag # 0 /\ forCCtx -> reserve_aligned_init_once(s, r.tag)
    [] OTHER -> Zeroes(reserve_aligned64(s, r.tag))

reset_matchState(s, r, makeClean, resetIndex, forCCtx) ==
  LET Rest(t) == ForEach(r.opt, TagsReserved(IF makeClean THEN clean_tables(t) ELSE t, r, forCCtx), reserve_aligned64)
  IN With(ForEach(r.tables, clear_tables(IF resetIndex THEN mark_tables_dirty(Restarted(s)) ELSE s), reserve_table),
          LAMBDA t : IF t.ws.allocFailed THEN t ELSE Rest(t))

\* malloc gives a workspace at start; the objects are laid into it.
Created(start, size, sizes) ==
  ForEach(sizes, [ws |-> init(start, size), mem |-> [a \in start .. start + size - 1 |-> "none"], made |-> <<>>],
          reserve_object)

NothingHeld == [ws |-> Zeroed, mem |-> <<>>, made |-> <<>>]

\* ZSTD_resetCCtx_internal from where it has a workspace; an error of reset_matchState is returned.
Laid(s, r, makeClean, resetIndex) ==
  With(reset_matchState(clear(s), r, makeClean, resetIndex, TRUE),
       LAMBDA t : IF t.ws.allocFailed THEN t ELSE ForEach(r.buffers, ForEach(r.aligned, t, reserve_aligned64), reserve_buffer))

Resizes(w, space) == size_of(w) < space \/ check_wasteful(w, space)

\* What resetting gives; start is where malloc places a workspace, should it be asked for one.
resetCCtx_internal(r, makeClean, indexTooClose, start) ==
  LET bumped == bump_oversized_duration(ws, 0)
  IN IF ~Resizes(bumped, NeededSpace(r)) THEN Laid([Held EXCEPT !.ws = bumped], r, makeClean, indexTooClose)
     ELSE IF start = NULL THEN NothingHeld
     ELSE With(Created(start, NeededSpace(r), Objects),
               LAMBDA s : IF s.ws.allocFailed THEN s ELSE Laid(s, r, makeClean, TRUE))

\* ZSTD_resetCCtx_byCopyingCDict: the tables, and the indexes, are those of the CDict.
WithTablesCopied(s) ==
  With(Addresses(s, {"table"}),
       LAMBDA tables : RestartedBut(mark_tables_clean(Put(Put(mark_tables_dirty(s), tables, "index"),
                                                          Addresses(s, {"initOnce"}), "data")), tables))

HasTables(s) == s.ws # Zeroed /\ ~s.ws.allocFailed
-----------------------------------------------------------------------------
Init ==
  /\ holder \in {"cctx", "cdict"}
  /\ ws = Zeroed /\ mem = <<>> /\ made = <<>> /\ ready = FALSE

Becomes(s) == ws' = s.ws /\ mem' = s.mem /\ made' = s.made /\ ready' = HasTables(s) /\ UNCHANGED holder

\* malloc may have no memory; where nothing is asked of it, the workspace stays where it is.
Places(r) == IF Resizes(bump_oversized_duration(ws, 0), NeededSpace(r)) THEN Starts \cup {NULL} ELSE {ws.workspace}

\* A frame begins, with or without a dictionary.
ResetCCtx ==
  /\ holder = "cctx"
  /\ \E r \in Requests, indexTooClose \in BOOLEAN : \E start \in Places(r) :
       \E s \in {resetCCtx_internal(r, TRUE, indexTooClose, start)} : Becomes(s)

\* A frame begins with the tables of a CDict.
ResetCCtxByCopyingCDict ==
  /\ holder = "cctx"
  /\ \E r \in Requests, indexTooClose \in BOOLEAN : \E start \in Places(r) :
       \E s \in {resetCCtx_internal(r, FALSE, indexTooClose, start)} : Becomes(IF HasTables(s) THEN WithTablesCopied(s) ELSE s)

\* ZSTD_createCDict_advanced_internal and ZSTD_initCDict_internal, if malloc has memory.
CreateCDict ==
  /\ holder = "cdict" /\ ws = Zeroed
  /\ \E r \in CDictRequests, start \in Starts :
       \E s \in {reset_matchState(Created(start, CDictSpace(r), CDictObjects), r, TRUE, TRUE, FALSE)} : Becomes(s)

\* Compression puts indexes into tables, and anything into what it has of the given kinds.
Compress ==
  /\ ready
  /\ \E kinds \in SUBSET {"initOnce", "aligned", "buffer"} : mem' = Put(Held, Addresses(Held, kinds), "data").mem
  /\ UNCHANGED <<holder, ws, made, ready>>

\* Not the code: what was valid beyond the tables in use stays so.
CorrectOverflowOfTables ==
  /\ ready
  /\ Becomes(RestartedBut(Held, Addresses(Held, {"table"})))

\* ZSTD_overflowCorrectIfNeeded: the tables that are in use are reduced along with the indexes.
CorrectOverflow ==
  /\ ready
  /\ Becomes(mark_tables_clean(RestartedBut(mark_tables_dirty(Held), Addresses(Held, {"table"}))))

Next == ResetCCtx \/ ResetCCtxByCopyingCDict \/ CreateCDict \/ Compress \/ CorrectOverflow

Spec == Init /\ [][Next]_vars
-----------------------------------------------------------------------------
(* What a frame finds in its tables is indexes below its own, although most *)
(* resets clear only what was not valid: buffers of an earlier frame, and    *)
(* indexes of before a restart or a correction, are never taken for them. So *)
(* it is for the part a later frame may lay its tables into uncleared       *)
(* (reserve_internal_buffer_space, mark_tables_dirty, clean_tables).         *)
TablesHoldIndexes ==
  ready => /\ \A a \in Addresses(Held, {"table"}) : mem[a] = "index"
           /\ \A a \in ws.objectEnd .. ws.tableValidEnd - 1 : mem[a] = "index"

(* Tags are read before this frame writes them: whatever they are, the      *)
(* memory was written (reserve_aligned_init_once).                          *)
InitOnceIsWritten ==
  \A a \in Addresses(Held, {"initOnce"}) : mem[a] # "none"

(* What is reserved lies in the workspace, is apart from everything else,   *)
(* and is aligned; the ends are in the order that the asserts of            *)
(* ZSTD_cwksp_assert_internal_consistency want.                             *)
LaidOutApart ==
  LET Bytes(i) == made[i].at .. made[i].at + made[i].size - 1
  IN /\ \A i \in {k \in DOMAIN made : made[k].at # NULL} :
          /\ Bytes(i) \subseteq ws.workspace .. ws.workspaceEnd - 1
          /\ made[i].kind \in {"table", "initOnce", "aligned"} => made[i].at % ALIGNMENT_BYTES = 0
          /\ \A j \in DOMAIN made : i # j /\ made[j].at # NULL => Bytes(i) \cap Bytes(j) = {}
     /\ ws.workspace <= ws.objectEnd /\ ws.objectEnd <= ws.tableEnd /\ ws.objectEnd <= ws.tableValidEnd
     /\ ws.tableEnd <= ws.allocStart /\ ws.tableValidEnd <= ws.allocStart /\ ws.allocStart <= ws.workspaceEnd
     /\ ws.workspace <= ws.initOnceStart /\ ws.initOnceStart <= initialAllocStart(ws)

(* The space that was estimated is enough: nothing fails to be reserved, be *)
(* the workspace new or an old one, wherever malloc placed it; and beyond   *)
(* what was reserved no more is used than the two alignments that the       *)
(* estimate counts (the assert at the end of ZSTD_resetCCtx_internal).      *)
SpaceSuffices ==
  LET reserved == Sum([i \in DOMAIN made |-> made[i].size])
  IN /\ \A i \in DOMAIN made : made[i].at # NULL
     /\ ready => used(ws) - reserved \in 0 .. 2 * ALIGNMENT_BYTES
     /\ ws # Zeroed => ready
=============================================================================
