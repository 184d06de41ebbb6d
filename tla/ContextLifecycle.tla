-------------------------- MODULE ContextLifecycle --------------------------
(***************************************************************************)
(* Who frees what.  Native contexts are created by the one-shot methods and*)
(* by the initialize methods of the streaming classes, handed to           *)
(* set_compress_params() or set_decompress_params() (common.h), which free *)
(* them before some of their raises, and then freed by the method or owned *)
(* by a Ruby object.  Dictionaries are owned by CDict and DDict objects;   *)
(* contexts refer to them by a bare pointer.  The collector may run at any *)
(* time, and another thread too while a method works without the GVL.      *)
(***************************************************************************)
EXTENDS Naturals, FiniteSets

CONSTANTS
  Threads,
  Contexts,     \* native contexts, numbered as they are allocated
  Streams,      \* streaming objects, numbered as they are created
  Dicts,        \* CDict and DDict objects, each with a native dictionary of its own
  DictString,   \* a dictionary that is passed as a string
  None

VARIABLES
  context,      \* what became of each native context
  dictionary,   \* what became of each native dictionary
  refers,       \* the dictionary that a context has a pointer to
  owned,        \* sc->ctx or sd->dctx of each streaming object
  stream,       \* each streaming object: its class, None before it is created
  buffers,      \* buffers of decode_one_frame() that are allocated
  held,         \* the Ruby objects that the program can still reach
  frame,        \* the method that each thread is in
  last          \* how the last method ended

vars == <<context, dictionary, refers, owned, stream, buffers, held, frame, last>>

Fates == {"none", "live", "freed", "freed twice"}
Classes == {"StreamingCompress", "StreamingDecompress"}
Methods == {"compress", "decompress", "new", "call"}

LifecycleAssumption ==
  /\ Contexts \subseteq Nat /\ Streams \subseteq Nat
  /\ Streams \cap Dicts = {} /\ DictString \notin Dicts
  /\ None \notin Contexts \cup Streams \cup Dicts \cup {DictString}
  /\ None \notin Classes \cup Methods \cup {"collected"}

\* What free() makes of an address.
Free(fate) == IF fate = "live" THEN "freed" ELSE "freed twice"
FreeContext(c) == context' = [context EXCEPT ![c] = Free(@)]

Idle == [method |-> None, class |-> None, ctx |-> None, self |-> None, dict |-> None, at |-> "idle"]

Init ==
  /\ context = [c \in Contexts |-> "none"]
  /\ dictionary = [d \in Dicts |-> "none"]
  /\ refers = [c \in Contexts |-> None]
  /\ owned = [s \in Streams |-> None]
  /\ stream = [s \in Streams |-> None]
  /\ buffers = {}
  /\ held = {}
  /\ frame = [t \in Threads |-> Idle]
  /\ last = "none"

\* Dictionaries ----------------------------------------------------------------

\* CDict.new and DDict.new: the object, and then the native dictionary; a level
\* that is not an Integer or a failed allocation raises before there is one, which
\* changes nothing.
NewDict(t, d) ==
  /\ frame[t] = Idle /\ dictionary[d] = "none"
  /\ dictionary' = [dictionary EXCEPT ![d] = "live"]
  /\ held' = held \cup {d}
  /\ UNCHANGED <<context, refers, owned, stream, buffers, frame, last>>

\* What the program passes as dict:.
DictArguments == {None, DictString} \cup (held \cap Dicts)

\* A method up to its parameters ------------------------------------------------

Enter(t, method, class, self, ctx, dict, at) ==
  frame' = [frame EXCEPT ![t] = [method |-> method, class |-> class, ctx |-> ctx,
                                 self |-> self, dict |-> dict, at |-> at]]
  /\ UNCHANGED last

Create(c) ==
  /\ context[c] = "none" /\ \A b \in Contexts : b < c => context[b] # "none"
  /\ context' = [context EXCEPT ![c] = "live"]

BeginCompress(t) ==
  /\ frame[t] = Idle
  /\ \E c \in Contexts, d \in DictArguments :
       Create(c) /\ Enter(t, "compress", "StreamingCompress", None, c, d, "parameters")
  /\ UNCHANGED <<dictionary, refers, owned, stream, buffers, held>>

\* decode_one_frame() allocates its buffer before it looks at the parameters.
BeginDecompress(t) ==
  /\ frame[t] = Idle
  /\ \E c \in Contexts, d \in DictArguments :
       /\ Create(c) /\ Enter(t, "decompress", "StreamingDecompress", None, c, d, "parameters")
       /\ buffers' = buffers \cup {c}
  /\ UNCHANGED <<dictionary, refers, owned, stream, held>>

\* Not the code: initialize stores the context before it is complete.
OwnsAtOnce(self, c) == owned' = [owned EXCEPT ![self] = c]

OwnsAtFirst(self, c) == UNCHANGED owned

\* new: allocate and the first part of initialize.
BeginNew(t) ==
  /\ frame[t] = Idle
  /\ \E c \in Contexts, d \in DictArguments, s \in Streams, class \in Classes :
       /\ stream[s] = None /\ \A r \in Streams : r < s => stream[r] # None
       /\ stream' = [stream EXCEPT ![s] = class]
       /\ Create(c) /\ Enter(t, "new", class, s, c, d, "parameters")
       /\ OwnsAtFirst(s, c)
  /\ UNCHANGED <<dictionary, refers, buffers, held>>

\* set_compress_params() and set_decompress_params() -----------------------------

InParameters(t) == frame[t].at = "parameters"
Leave(t, how) == frame' = [frame EXCEPT ![t] = Idle] /\ last' = how
Return(t) == Leave(t, "returned")
Reject(t) == Leave(t, "rejected")
Raise(t) == Leave(t, "raised")

\* ZSTD_CCtx_refCDict, ZSTD_DCtx_refDDict: a pointer; a string is copied.
ParametersSet(t) ==
  /\ InParameters(t)
  /\ refers' = [refers EXCEPT ![frame[t].ctx] =
       IF frame[t].dict \in Dicts THEN frame[t].dict ELSE None]
  /\ frame' = [frame EXCEPT ![t].at = "ready"]
  /\ UNCHANGED <<context, dictionary, owned, stream, buffers, held, last>>

\* dict: is neither a dictionary nor a string, or cannot be loaded, or level: is
\* not an Integer.  The context is freed; decode_one_frame()'s buffer is not.
ParametersRejected(t) ==
  /\ InParameters(t)
  /\ FreeContext(frame[t].ctx)
  /\ Reject(t)
  /\ UNCHANGED <<dictionary, refers, owned, stream, buffers, held>>

\* An unknown keyword, or a level: that does not fit in an int: rb_get_kwargs and
\* NUM2INT raise past everyone who knows the context.
ParametersRaise(t) ==
  /\ InParameters(t)
  /\ Raise(t)
  /\ UNCHANGED <<context, dictionary, refers, owned, stream, buffers, held>>

\* The methods proper ------------------------------------------------------------

\* Not the code: the context is not stored.
EndNewWithoutContext(t) ==
  /\ frame[t].method = "new" /\ frame[t].at = "ready"
  /\ held' = held \cup {frame[t].self}
  /\ Return(t)
  /\ UNCHANGED <<context, dictionary, refers, owned, stream, buffers>>

\* initialize: the object owns the context from here.
EndNew(t) ==
  /\ frame[t].method = "new" /\ frame[t].at = "ready"
  /\ owned' = [owned EXCEPT ![frame[t].self] = frame[t].ctx]
  /\ held' = held \cup {frame[t].self}
  /\ Return(t)
  /\ UNCHANGED <<context, dictionary, refers, stream, buffers>>

\* Not the code: the context is kept for the next method.
KeepContext(c) == UNCHANGED context

FreeAfterUse(c) == FreeContext(c)

\* The library is done: compress frees the context, whether it worked or not.
EndCompress(t) ==
  /\ frame[t].method = "compress" /\ frame[t].at = "ready"
  /\ FreeAfterUse(frame[t].ctx)
  /\ Return(t)
  /\ UNCHANGED <<dictionary, refers, owned, stream, buffers, held>>

\* An exception that waits for the GVL leaves the method, and the context.
InterruptCompress(t) ==
  /\ frame[t].method = "compress" /\ frame[t].at = "ready"
  /\ Raise(t)
  /\ UNCHANGED <<context, dictionary, refers, owned, stream, buffers, held>>

EndDecompress(t) ==
  /\ frame[t].method = "decompress" /\ frame[t].at = "ready"
  /\ FreeContext(frame[t].ctx)
  /\ buffers' = buffers \ {frame[t].ctx}
  /\ Return(t)
  /\ UNCHANGED <<dictionary, refers, owned, stream, held>>

\* ZSTD_decompressStream failed: decode_one_frame() raises past rb_decompress.
DecompressFails(t) ==
  /\ frame[t].method = "decompress" /\ frame[t].at = "ready"
  /\ buffers' = buffers \ {frame[t].ctx}
  /\ Raise(t)
  /\ UNCHANGED <<context, dictionary, refers, owned, stream, held>>

\* A method of a streaming object that calls the library.
BeginCall(t) ==
  /\ frame[t] = Idle
  /\ \E s \in held \cap Streams :
       Enter(t, "call", stream[s], s, owned[s], None, "ready")
  /\ UNCHANGED <<context, dictionary, refers, owned, stream, buffers, held>>

EndCall(t) ==
  /\ frame[t].method = "call"
  /\ Return(t)
  /\ UNCHANGED <<context, dictionary, refers, owned, stream, buffers, held>>

\* The program and the collector --------------------------------------------------

Forget(o) ==
  /\ o \in held
  /\ held' = held \ {o}
  /\ UNCHANGED <<context, dictionary, refers, owned, stream, buffers, frame, last>>

\* Not the code: the stacks are not scanned.
MarkedFromProgram == held

\* What the collector marks: what the program reaches, and what methods have on
\* their stacks.  The mark functions of the streaming classes add strings only.
Marked == held \cup {frame[t].self : t \in Threads} \cup {frame[t].dict : t \in Threads}

\* streaming_compress_free(), streaming_decompress_free()
CollectStream(s) ==
  /\ stream[s] \in Classes /\ s \notin Marked
  /\ stream' = [stream EXCEPT ![s] = "collected"]
  /\ IF owned[s] = None THEN UNCHANGED context ELSE FreeContext(owned[s])
  /\ UNCHANGED <<dictionary, refers, owned, buffers, held, frame, last>>

\* free_cdict(), free_ddict()
CollectDict(d) ==
  /\ dictionary[d] = "live" /\ d \notin Marked
  /\ dictionary' = [dictionary EXCEPT ![d] = Free(@)]
  /\ UNCHANGED <<context, refers, owned, stream, buffers, held, frame, last>>

Method(t) ==
  \/ BeginCompress(t) \/ BeginDecompress(t) \/ BeginNew(t)
  \/ ParametersSet(t) \/ ParametersRejected(t) \/ ParametersRaise(t)
  \/ EndNew(t) \/ EndCompress(t) \/ InterruptCompress(t)
  \/ EndDecompress(t) \/ DecompressFails(t)
  \/ BeginCall(t) \/ EndCall(t)

Next ==
  \/ \E t \in Threads : Method(t)
  \/ \E t \in Threads, d \in Dicts : NewDict(t, d)
  \/ \E o \in held : Forget(o)
  \/ \E s \in Streams : CollectStream(s)
  \/ \E d \in Dicts : CollectDict(d)

Spec == Init /\ [][Next]_vars
-----------------------------------------------------------------------------
Frames == {Idle} \cup
  [method : Methods, class : Classes, ctx : Contexts, self : Streams \cup {None},
   dict : Dicts \cup {None, DictString}, at : {"parameters", "ready"}]

TypeOK ==
  /\ context \in [Contexts -> Fates]
  /\ dictionary \in [Dicts -> Fates]
  /\ refers \in [Contexts -> Dicts \cup {None}]
  /\ owned \in [Streams -> Contexts \cup {None}]
  /\ stream \in [Streams -> Classes \cup {None, "collected"}]
  /\ buffers \subseteq Contexts
  /\ held \subseteq Streams \cup Dicts
  /\ last \in {"none", "returned", "rejected", "raised"}
  /\ frame \in [Threads -> Frames]

\* A method is inside the library with this context.
Working(t) == frame[t].at = "ready"

(* No context and no dictionary is freed twice: what set_*_params() frees   *)
(* before a raise nobody frees after it, the collector included, which      *)
(* finds the half-initialized object later.                                 *)
FreedOnce ==
  /\ \A c \in Contexts : context[c] # "freed twice"
  /\ \A d \in Dicts : dictionary[d] # "freed twice"

(* The context that a method works with is allocated, and it is only freed  *)
(* by the collector when no thread is in it.                                *)
ContextLivesWhileUsed ==
  \A t \in Threads : Working(t) => context[frame[t].ctx] = "live"

(* A dictionary is alive while Zstd.compress and Zstd.decompress use it,    *)
(* whatever the program forgets and the collector collects meanwhile.       *)
OneShotDictionaryLives ==
  \A t \in Threads :
    Working(t) /\ frame[t].method \in {"compress", "decompress"} /\ refers[frame[t].ctx] \in Dicts
      => dictionary[refers[frame[t].ctx]] = "live"

(* Together: what is used has been allocated, and nothing is freed twice.   *)
AliveWhileUsed == FreedOnce /\ ContextLivesWhileUsed /\ OneShotDictionaryLives

Owned(c) == \E s \in Streams : stream[s] \in Classes /\ owned[s] = c
InMethod(c) == \E t \in Threads : frame[t].ctx = c
Leaked == {c \in Contexts : context[c] = "live" /\ ~Owned(c) /\ ~InMethod(c)}

(* A method that does not raise leaks nothing, neither does the collector,  *)
(* and neither does a rejected parameter: a context becomes unreachable     *)
(* only when an exception passes a C function that knows it.                *)
OnlyRaisesLeak == Leaked' # Leaked => frame' # frame /\ last' = "raised"

(* zstd.h:1121, 1178: "CDict is just referenced, its lifetime must outlive  *)
(* its usage within CCtx": also when the context is that of a streaming     *)
(* object.                                                                  *)
DictionaryOutlivesUse ==
  \A t \in Threads :
    Working(t) /\ refers[frame[t].ctx] \in Dicts => dictionary[refers[frame[t].ctx]] = "live"
=============================================================================
