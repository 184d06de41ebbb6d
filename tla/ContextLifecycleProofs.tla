------------------------ MODULE ContextLifecycleProofs ------------------------
(***************************************************************************)
(* Proofs about ContextLifecycle, for any numbers of threads, contexts,    *)
(* streaming objects and dictionaries. The invariant says who alone knows  *)
(* what: a method the context that it is to free, an object the context    *)
(* that it owns, initialize the object that is not whole yet.              *)
(***************************************************************************)
EXTENDS ContextLifecycle, TLAPS

\* What the methods and objects that know a context know of each other.

\* A method that frees its context, or gives it to an object.
Active(t) == frame[t].at # "idle"
HasContext(t) == Active(t) /\ frame[t].method # "call"

\* A context that a method has to free is its alone: no other method has it, and
\* no object.
ContextsOfMethods ==
  \A t \in Threads : HasContext(t) =>
    /\ context[frame[t].ctx] = "live"
    /\ \A s \in Streams : owned[s] # frame[t].ctx
    /\ \A u \in Threads : HasContext(u) /\ frame[u].ctx = frame[t].ctx => u = t

\* A context that an object owns is its alone, and lives until it is collected.
ContextsOfStreams ==
  \A s \in Streams :
    /\ stream[s] = None => owned[s] = None
    /\ owned[s] # None => context[owned[s]] # "none" /\ \A r \in Streams : owned[r] = owned[s] => r = s
    /\ owned[s] # None /\ stream[s] \in Classes => context[owned[s]] = "live"

\* An object in initialize has no context yet, and no other method knows it.
StreamsInNew ==
  \A t \in Threads : HasContext(t) /\ frame[t].method = "new" =>
    /\ frame[t].self \in Streams /\ stream[frame[t].self] \in Classes
    /\ owned[frame[t].self] = None
    /\ \A u \in Threads : HasContext(u) /\ frame[u].method = "new" /\ frame[u].self = frame[t].self
         => u = t

\* The program and its methods know only whole objects.
StreamsInUse ==
  /\ \A s \in held \cap Streams : stream[s] \in Classes /\ owned[s] # None
  /\ \A t \in Threads : Active(t) /\ frame[t].method = "call" =>
       /\ frame[t].self \in Streams /\ stream[frame[t].self] \in Classes
       /\ owned[frame[t].self] = frame[t].ctx /\ frame[t].at = "ready"

\* Dictionaries that the program or a method knows are alive, and a context that a
\* one-shot method works with refers to no other.
DictsInUse ==
  /\ \A d \in held \cap Dicts : dictionary[d] = "live"
  /\ \A t \in Threads : Active(t) /\ frame[t].dict \in Dicts => dictionary[frame[t].dict] = "live"
  /\ \A t \in Threads : Working(t) /\ frame[t].method \in {"compress", "decompress"} =>
       refers[frame[t].ctx] = IF frame[t].dict \in Dicts THEN frame[t].dict ELSE None

IInv == TypeOK /\ FreedOnce /\ ContextsOfMethods /\ ContextsOfStreams /\ StreamsInNew /\ StreamsInUse
          /\ DictsInUse

\* Methods that create a context.
Begins(t) == BeginCompress(t) \/ BeginDecompress(t) \/ BeginNew(t)
-----------------------------------------------------------------------------
LEMMA InitIsOwned == LifecycleAssumption /\ Init => IInv
  BY DEF LifecycleAssumption, Init, IInv, TypeOK, FreedOnce, ContextsOfMethods, ContextsOfStreams,
    StreamsInNew, StreamsInUse, DictsInUse, HasContext, Active, Working, Fates, Frames, Idle

\* What TypeOK says of the method on a thread.
LEMMA FrameFields ==
  ASSUME TypeOK, NEW t \in Threads
  PROVE  /\ frame[t] = Idle => ~Active(t) /\ frame[t].self = None /\ frame[t].dict = None
         /\ ~Active(t) => frame[t] = Idle
         /\ Active(t) =>
              /\ frame[t].method \in Methods /\ frame[t].class \in Classes
              /\ frame[t].ctx \in Contexts /\ frame[t].self \in Streams \cup {None}
              /\ frame[t].dict \in Dicts \cup {None, DictString}
              /\ frame[t].at \in {"parameters", "ready"}
  BY DEF TypeOK, Active, Idle, Frames

\* A thread enters a method; the others stay where they are.
LEMMA EnterFrame ==
  ASSUME TypeOK, NEW t \in Threads, NEW method \in Methods, NEW class \in Classes,
         NEW self \in Streams \cup {None}, NEW ctx \in Contexts,
         NEW dict \in Dicts \cup {None, DictString}, NEW at \in {"parameters", "ready"},
         Enter(t, method, class, self, ctx, dict, at)
  PROVE  /\ frame' \in [Threads -> Frames]
         /\ frame'[t].method = method /\ frame'[t].ctx = ctx /\ frame'[t].self = self
         /\ frame'[t].dict = dict /\ frame'[t].at = at
         /\ \A u \in Threads \ {t} : frame'[u] = frame[u]
         /\ last' = last
<1> DEFINE r == [method |-> method, class |-> class, ctx |-> ctx, self |-> self, dict |-> dict, at |-> at]
<1>1. r \in Frames
  BY DEF Frames
<1>2. r.method = method /\ r.ctx = ctx /\ r.self = self /\ r.dict = dict /\ r.at = at
  OBVIOUS
<1>3. frame' = [frame EXCEPT ![t] = r] /\ last' = last
  BY DEF Enter
<1>4. frame \in [Threads -> Frames]
  BY DEF TypeOK
<1> HIDE DEF r
<1> QED BY <1>1, <1>2, <1>3, <1>4

\* A thread leaves its method.
LEMMA LeaveFrame ==
  ASSUME TypeOK, NEW t \in Threads, NEW how \in {"returned", "rejected", "raised"}, Leave(t, how)
  PROVE  /\ frame' \in [Threads -> Frames]
         /\ frame'[t].at = "idle"
         /\ \A u \in Threads \ {t} : frame'[u] = frame[u]
         /\ last' = how
<1>1. Idle \in Frames /\ Idle.at = "idle"
  BY DEF Frames, Idle
<1> QED BY <1>1 DEF Leave, TypeOK

\* A context is created for a one-shot method.
LEMMA OneShotBegins ==
  ASSUME LifecycleAssumption, IInv, NEW t \in Threads, frame[t] = Idle,
         NEW c \in Contexts, NEW d \in DictArguments, NEW method \in {"compress", "decompress"},
         NEW class \in Classes, Create(c), Enter(t, method, class, None, c, d, "parameters"),
         UNCHANGED <<dictionary, refers, owned, stream, held>>, buffers' \subseteq Contexts
  PROVE  IInv'
<1>1. d \in Dicts \cup {None, DictString} /\ (d \in Dicts => d \in held)
  BY DEF DictArguments, LifecycleAssumption
<1>2. /\ frame' \in [Threads -> Frames]
      /\ frame'[t].method = method /\ frame'[t].ctx = c /\ frame'[t].self = None
      /\ frame'[t].dict = d /\ frame'[t].at = "parameters"
      /\ \A u \in Threads \ {t} : frame'[u] = frame[u]
      /\ last' = last
  BY <1>1, EnterFrame DEF IInv, Methods
<1>3. /\ context[c] = "none" /\ context'[c] = "live" /\ context' \in [Contexts -> Fates]
      /\ \A b \in Contexts \ {c} : context'[b] = context[b]
  BY DEF Create, IInv, TypeOK, Fates
<1>4. \A u \in Threads : HasContext(u) => frame[u].ctx # c /\ frame[u].ctx \in Contexts
  BY <1>3, FrameFields DEF IInv, ContextsOfMethods, HasContext
<1>5. \A s \in Streams : owned[s] # c /\ owned[s] \in Contexts \cup {None}
  BY <1>3 DEF IInv, ContextsOfStreams, TypeOK, LifecycleAssumption
<1>6. ~HasContext(t)
  BY FrameFields DEF HasContext, IInv
<1>7. TypeOK'
  BY <1>2, <1>3 DEF IInv, TypeOK
<1>8. FreedOnce'
  BY <1>3 DEF IInv, FreedOnce
<1>9. ContextsOfMethods'
  BY <1>2, <1>3, <1>4, <1>5, <1>6 DEF IInv, ContextsOfMethods, HasContext, Active
<1>10. ContextsOfStreams'
  BY <1>3, <1>5 DEF IInv, ContextsOfStreams
<1>11. StreamsInNew'
  BY <1>2 DEF IInv, StreamsInNew, HasContext, Active
<1>12. StreamsInUse'
  BY <1>2 DEF IInv, StreamsInUse, HasContext, Active
<1>13. DictsInUse'
  BY <1>1, <1>2 DEF IInv, DictsInUse, HasContext, Active, Working
<1> QED BY <1>7, <1>8, <1>9, <1>10, <1>11, <1>12, <1>13 DEF IInv

\* A method that has a context leaves, with or without freeing it.
LEMMA MethodLeaves ==
  ASSUME LifecycleAssumption, IInv, NEW t \in Threads, HasContext(t),
         NEW how \in {"returned", "rejected", "raised"}, Leave(t, how),
         UNCHANGED context \/ FreeContext(frame[t].ctx),
         UNCHANGED <<dictionary, refers, owned, stream, held>>, buffers' \subseteq buffers
  PROVE  IInv'
<1>1. /\ frame' \in [Threads -> Frames] /\ last' = how
      /\ frame'[t].at = "idle"
      /\ \A u \in Threads \ {t} : frame'[u] = frame[u]
  BY LeaveFrame DEF IInv
<1>2. frame[t].ctx \in Contexts /\ context[frame[t].ctx] = "live"
  BY FrameFields DEF IInv, HasContext, ContextsOfMethods
<1>3. /\ context' \in [Contexts -> Fates] /\ context'[frame[t].ctx] \in {"live", "freed"}
      /\ \A b \in Contexts \ {frame[t].ctx} : context'[b] = context[b]
  BY <1>2 DEF FreeContext, Free, IInv, TypeOK, Fates
<1>4. \A u \in Threads \ {t} : HasContext(u) => frame[u].ctx # frame[t].ctx /\ frame[u].ctx \in Contexts
  BY FrameFields DEF IInv, ContextsOfMethods, HasContext
<1>5. \A s \in Streams : owned[s] # frame[t].ctx /\ owned[s] \in Contexts \cup {None}
  BY DEF IInv, ContextsOfMethods, TypeOK
<1>6. TypeOK'
  BY <1>1, <1>3 DEF IInv, TypeOK
<1>7. FreedOnce'
  BY <1>3 DEF IInv, FreedOnce
<1>8. ContextsOfMethods'
  BY <1>1, <1>3, <1>4 DEF IInv, ContextsOfMethods, HasContext, Active
<1>9. ContextsOfStreams'
  BY <1>3, <1>5 DEF IInv, ContextsOfStreams
<1>10. StreamsInNew'
  BY <1>1 DEF IInv, StreamsInNew, HasContext, Active
<1>11. StreamsInUse'
  BY <1>1 DEF IInv, StreamsInUse, HasContext, Active
<1>12. DictsInUse'
  BY <1>1 DEF IInv, DictsInUse, HasContext, Active, Working
<1> QED BY <1>6, <1>7, <1>8, <1>9, <1>10, <1>11, <1>12 DEF IInv

LEMMA NewBegins ==
  ASSUME LifecycleAssumption, IInv, NEW t \in Threads, BeginNew(t)
  PROVE  IInv'
<1>1. PICK c \in Contexts, d \in DictArguments, s \in Streams, class \in Classes :
        /\ stream[s] = None /\ stream' = [stream EXCEPT ![s] = class]
        /\ Create(c) /\ Enter(t, "new", class, s, c, d, "parameters")
        /\ UNCHANGED owned
  BY DEF BeginNew, OwnsAtFirst
<1>2. d \in Dicts \cup {None, DictString} /\ (d \in Dicts => d \in held)
  BY DEF DictArguments, LifecycleAssumption
<1>3. /\ frame' \in [Threads -> Frames]
      /\ frame'[t].method = "new" /\ frame'[t].ctx = c /\ frame'[t].self = s
      /\ frame'[t].dict = d /\ frame'[t].at = "parameters"
      /\ \A u \in Threads \ {t} : frame'[u] = frame[u]
      /\ last' = last
  BY <1>1, <1>2, EnterFrame DEF IInv, Methods
<1>4. /\ context[c] = "none" /\ context'[c] = "live" /\ context' \in [Contexts -> Fates]
      /\ \A b \in Contexts \ {c} : context'[b] = context[b]
  BY <1>1 DEF Create, IInv, TypeOK, Fates
<1>5. /\ stream' \in [Streams -> Classes \cup {None, "collected"}]
      /\ stream'[s] = class /\ \A r \in Streams \ {s} : stream'[r] = stream[r]
  BY <1>1 DEF IInv, TypeOK
<1>6. UNCHANGED <<dictionary, refers, owned, buffers, held>>
  BY <1>1 DEF BeginNew
<1>7. \A u \in Threads : HasContext(u) => frame[u].ctx # c /\ frame[u].ctx \in Contexts
  BY <1>4, FrameFields DEF IInv, ContextsOfMethods, HasContext
<1>8. \A r \in Streams : owned[r] # c /\ owned[r] \in Contexts \cup {None}
  BY <1>4 DEF IInv, ContextsOfStreams, TypeOK, LifecycleAssumption
<1>9. ~HasContext(t) /\ owned[s] = None /\ s \notin held
  BY <1>1, FrameFields DEF BeginNew, HasContext, IInv, ContextsOfStreams, StreamsInUse, LifecycleAssumption
<1>10. \A u \in Threads : HasContext(u) /\ frame[u].method = "new" => frame[u].self # s
  BY <1>1 DEF IInv, StreamsInNew, LifecycleAssumption
<1>11. TypeOK'
  BY <1>3, <1>4, <1>5, <1>6 DEF IInv, TypeOK
<1>12. FreedOnce'
  BY <1>4, <1>6 DEF IInv, FreedOnce
<1>13. ContextsOfMethods'
  BY <1>3, <1>4, <1>6, <1>7, <1>8, <1>9 DEF IInv, ContextsOfMethods, HasContext, Active
<1>14. ContextsOfStreams'
  BY <1>4, <1>5, <1>6, <1>8, <1>9 DEF IInv, ContextsOfStreams
<1>15. StreamsInNew'
  BY <1>3, <1>5, <1>6, <1>9, <1>10 DEF IInv, StreamsInNew, HasContext, Active
<1>16. StreamsInUse'
  BY <1>3, <1>5, <1>6, <1>9 DEF IInv, StreamsInUse, HasContext, Active
<1>17. DictsInUse'
  BY <1>2, <1>3, <1>6 DEF IInv, DictsInUse, HasContext, Active, Working
<1> QED BY <1>11, <1>12, <1>13, <1>14, <1>15, <1>16, <1>17 DEF IInv

LEMMA ParametersAreSet ==
  ASSUME LifecycleAssumption, IInv, NEW t \in Threads, ParametersSet(t)
  PROVE  IInv'
<1>1. Active(t) /\ frame[t].at = "parameters" /\ frame[t].ctx \in Contexts
  BY FrameFields DEF IInv, ParametersSet, InParameters, Active
<1>2. /\ frame' \in [Threads -> Frames]
      /\ frame'[t].method = frame[t].method /\ frame'[t].ctx = frame[t].ctx
      /\ frame'[t].self = frame[t].self /\ frame'[t].dict = frame[t].dict /\ frame'[t].at = "ready"
      /\ \A u \in Threads \ {t} : frame'[u] = frame[u]
  BY <1>1 DEF ParametersSet, IInv, TypeOK, Frames, Idle
<1>3. /\ refers' \in [Contexts -> Dicts \cup {None}]
      /\ refers'[frame[t].ctx] = IF frame[t].dict \in Dicts THEN frame[t].dict ELSE None
      /\ \A b \in Contexts \ {frame[t].ctx} : refers'[b] = refers[b]
  BY <1>1 DEF ParametersSet, IInv, TypeOK
<1>4. UNCHANGED <<context, dictionary, owned, stream, buffers, held, last>>
  BY DEF ParametersSet
<1>5. \A u \in Threads \ {t} : HasContext(u) /\ HasContext(t) =>
        frame[u].ctx # frame[t].ctx /\ frame[u].ctx \in Contexts
  BY FrameFields DEF IInv, ContextsOfMethods, HasContext
<1>6. HasContext(t)
  BY <1>1 DEF IInv, StreamsInUse, HasContext
<1>7. TypeOK'
  BY <1>2, <1>3, <1>4 DEF IInv, TypeOK
<1>8. FreedOnce'
  BY <1>4 DEF IInv, FreedOnce
<1>9. ContextsOfMethods'
  BY <1>1, <1>2, <1>4 DEF IInv, ContextsOfMethods, HasContext, Active
<1>10. ContextsOfStreams'
  BY <1>4 DEF IInv, ContextsOfStreams
<1>11. StreamsInNew'
  BY <1>1, <1>2, <1>4 DEF IInv, StreamsInNew, HasContext, Active
<1>12. StreamsInUse'
  BY <1>1, <1>2, <1>4 DEF IInv, StreamsInUse, HasContext, Active
<1>13. DictsInUse'
  BY <1>1, <1>2, <1>3, <1>4, <1>5, <1>6 DEF IInv, DictsInUse, HasContext, Active, Working
<1> QED BY <1>7, <1>8, <1>9, <1>10, <1>11, <1>12, <1>13 DEF IInv

LEMMA NewEnds ==
  ASSUME LifecycleAssumption, IInv, NEW t \in Threads, EndNew(t)
  PROVE  IInv'
<1>1. /\ HasContext(t) /\ frame[t].method = "new"
      /\ frame[t].self \in Streams /\ frame[t].ctx \in Contexts
  BY FrameFields DEF IInv, EndNew, HasContext, Active, StreamsInNew
<1>2. /\ stream[frame[t].self] \in Classes /\ owned[frame[t].self] = None
      /\ context[frame[t].ctx] = "live"
  BY <1>1 DEF IInv, StreamsInNew, ContextsOfMethods
<1>3. /\ frame' \in [Threads -> Frames] /\ last' = "returned"
      /\ frame'[t].at = "idle"
      /\ \A u \in Threads \ {t} : frame'[u] = frame[u]
  BY LeaveFrame DEF IInv, EndNew, Return
<1>4. /\ owned' \in [Streams -> Contexts \cup {None}] /\ owned'[frame[t].self] = frame[t].ctx
      /\ \A s \in Streams \ {frame[t].self} : owned'[s] = owned[s]
  BY <1>1 DEF EndNew, IInv, TypeOK
<1>5. /\ held' = held \cup {frame[t].self}
      /\ UNCHANGED <<context, dictionary, refers, stream, buffers>>
  BY DEF EndNew
<1>6. \A u \in Threads \ {t} : HasContext(u) => frame[u].ctx # frame[t].ctx
  BY <1>1 DEF IInv, ContextsOfMethods
<1>7. \A u \in Threads \ {t} : HasContext(u) /\ frame[u].method = "new" => frame[u].self # frame[t].self
  BY <1>1 DEF IInv, StreamsInNew
<1>8. \A u \in Threads : Active(u) /\ frame[u].method = "call" =>
        frame[u].self # frame[t].self /\ frame[u].ctx # None
  BY <1>2, FrameFields DEF IInv, StreamsInUse, LifecycleAssumption
<1>9. \A s \in Streams : owned[s] # frame[t].ctx
  BY <1>1 DEF IInv, ContextsOfMethods
<1>10. frame[t].ctx # None /\ frame[t].self \notin Dicts
  BY <1>1 DEF LifecycleAssumption
<1>11. TypeOK'
  BY <1>1, <1>3, <1>4, <1>5 DEF IInv, TypeOK
<1>12. FreedOnce'
  BY <1>5 DEF IInv, FreedOnce
<1>13. ContextsOfMethods'
  BY <1>1, <1>3, <1>4, <1>5, <1>6 DEF IInv, ContextsOfMethods, HasContext, Active
<1>14. ContextsOfStreams'
  BY <1>1, <1>2, <1>4, <1>5, <1>9, <1>10 DEF IInv, ContextsOfStreams, LifecycleAssumption
<1>15. StreamsInNew'
  BY <1>3, <1>4, <1>5, <1>7 DEF IInv, StreamsInNew, HasContext, Active
<1>16. StreamsInUse'
  BY <1>1, <1>2, <1>3, <1>4, <1>5, <1>8, <1>10 DEF IInv, StreamsInUse, HasContext, Active
<1>17. DictsInUse'
  BY <1>3, <1>5, <1>10 DEF IInv, DictsInUse, HasContext, Active, Working
<1> QED BY <1>11, <1>12, <1>13, <1>14, <1>15, <1>16, <1>17 DEF IInv

LEMMA CallBegins ==
  ASSUME LifecycleAssumption, IInv, NEW t \in Threads, BeginCall(t)
  PROVE  IInv'
<1>1. PICK s \in held \cap Streams : Enter(t, "call", stream[s], s, owned[s], None, "ready")
  BY DEF BeginCall
<1>2. stream[s] \in Classes /\ owned[s] \in Contexts
  BY DEF IInv, StreamsInUse, TypeOK
<1>3. /\ frame' \in [Threads -> Frames]
      /\ frame'[t].method = "call" /\ frame'[t].ctx = owned[s] /\ frame'[t].self = s
      /\ frame'[t].dict = None /\ frame'[t].at = "ready"
      /\ \A u \in Threads \ {t} : frame'[u] = frame[u]
      /\ last' = last
  BY <1>1, <1>2, EnterFrame DEF IInv, Methods
<1>4. UNCHANGED <<context, dictionary, refers, owned, stream, buffers, held>>
  BY DEF BeginCall
<1>5. TypeOK'
  BY <1>3, <1>4 DEF IInv, TypeOK
<1>6. FreedOnce'
  BY <1>4 DEF IInv, FreedOnce
<1>7. ContextsOfMethods'
  BY <1>3, <1>4 DEF IInv, ContextsOfMethods, HasContext, Active
<1>8. ContextsOfStreams'
  BY <1>4 DEF IInv, ContextsOfStreams
<1>9. StreamsInNew'
  BY <1>3, <1>4 DEF IInv, StreamsInNew, HasContext, Active
<1>10. StreamsInUse'
  BY <1>2, <1>3, <1>4 DEF IInv, StreamsInUse, HasContext, Active
<1>11. DictsInUse'
  BY <1>3, <1>4 DEF IInv, DictsInUse, HasContext, Active, Working, LifecycleAssumption
<1> QED BY <1>5, <1>6, <1>7, <1>8, <1>9, <1>10, <1>11 DEF IInv

LEMMA CallEnds ==
  ASSUME LifecycleAssumption, IInv, NEW t \in Threads, EndCall(t)
  PROVE  IInv'
<1>1. /\ frame' \in [Threads -> Frames] /\ last' = "returned"
      /\ frame'[t].at = "idle"
      /\ \A u \in Threads \ {t} : frame'[u] = frame[u]
  BY LeaveFrame DEF IInv, EndCall, Return
<1>2. UNCHANGED <<context, dictionary, refers, owned, stream, buffers, held>>
  BY DEF EndCall
<1>3. TypeOK'
  BY <1>1, <1>2 DEF IInv, TypeOK
<1>4. FreedOnce' /\ ContextsOfStreams'
  BY <1>2 DEF IInv, FreedOnce, ContextsOfStreams
<1>5. ContextsOfMethods'
  BY <1>1, <1>2 DEF IInv, ContextsOfMethods, HasContext, Active
<1>6. StreamsInNew'
  BY <1>1, <1>2 DEF IInv, StreamsInNew, HasContext, Active
<1>7. StreamsInUse'
  BY <1>1, <1>2 DEF IInv, StreamsInUse, HasContext, Active
<1>8. DictsInUse'
  BY <1>1, <1>2 DEF IInv, DictsInUse, HasContext, Active, Working
<1> QED BY <1>3, <1>4, <1>5, <1>6, <1>7, <1>8 DEF IInv

LEMMA StreamIsCollected ==
  ASSUME LifecycleAssumption, IInv, NEW s \in Streams, CollectStream(s)
  PROVE  IInv'
<1>1. /\ stream[s] \in Classes /\ s \notin held /\ \A t \in Threads : frame[t].self # s
      /\ UNCHANGED <<dictionary, refers, owned, buffers, held, frame, last>>
  BY DEF CollectStream, Marked
<1>2. /\ stream' \in [Streams -> Classes \cup {None, "collected"}] /\ stream'[s] = "collected"
      /\ \A r \in Streams \ {s} : stream'[r] = stream[r]
  BY DEF CollectStream, IInv, TypeOK
<1>3. /\ context' \in [Contexts -> Fates]
      /\ \A b \in Contexts : context'[b] =
           IF b = owned[s] THEN "freed" ELSE context[b]
  <2>1. CASE owned[s] = None
    BY <2>1 DEF CollectStream, IInv, TypeOK, LifecycleAssumption
  <2>2. CASE owned[s] # None
    <3>1. owned[s] \in Contexts /\ context[owned[s]] = "live"
      BY <1>1, <2>2 DEF IInv, TypeOK, ContextsOfStreams
    <3> QED BY <2>2, <3>1 DEF CollectStream, FreeContext, Free, IInv, TypeOK, Fates
  <2> QED BY <2>1, <2>2
<1>4. \A t \in Threads : HasContext(t) => frame[t].ctx # owned[s] /\ frame[t].ctx \in Contexts
  BY FrameFields DEF IInv, ContextsOfMethods, HasContext
<1>5. \A r \in Streams : 
        /\ owned[r] \in Contexts \cup {None}
        /\ owned[r] = owned[s] /\ owned[r] # None => r = s
  BY DEF IInv, TypeOK, ContextsOfStreams
<1>6. TypeOK'
  BY <1>1, <1>2, <1>3 DEF IInv, TypeOK
<1>7. FreedOnce'
  BY <1>1, <1>3 DEF IInv, FreedOnce
<1>8. ContextsOfMethods'
  BY <1>1, <1>3, <1>4 DEF IInv, ContextsOfMethods, HasContext, Active
<1>9. ContextsOfStreams'
  BY <1>1, <1>2, <1>3, <1>5 DEF IInv, ContextsOfStreams, Classes, LifecycleAssumption
<1>10. StreamsInNew'
  BY <1>1, <1>2 DEF IInv, StreamsInNew, HasContext, Active
<1>11. StreamsInUse'
  BY <1>1, <1>2 DEF IInv, StreamsInUse, HasContext, Active
<1>12. DictsInUse'
  BY <1>1 DEF IInv, DictsInUse, HasContext, Active, Working
<1> QED BY <1>6, <1>7, <1>8, <1>9, <1>10, <1>11, <1>12 DEF IInv

\* Dictionaries come and go, and the program forgets.
LEMMA ProgramSteps ==
  ASSUME LifecycleAssumption, IInv,
         \/ \E t \in Threads, d \in Dicts : NewDict(t, d)
         \/ \E o \in held : Forget(o)
         \/ \E d \in Dicts : CollectDict(d)
         \/ UNCHANGED vars
  PROVE  IInv'
<1>1. /\ UNCHANGED <<context, refers, owned, stream, buffers, frame, last>>
      /\ dictionary' \in [Dicts -> Fates] /\ held' \subseteq held \cup Dicts
      /\ \A d \in Dicts : dictionary'[d] # dictionary[d] =>
           \/ dictionary[d] = "none" /\ dictionary'[d] = "live"
           \/ dictionary'[d] = "freed" /\ d \notin held' /\ \A t \in Threads : frame[t].dict # d
      /\ \A d \in Dicts : d \in held' /\ d \notin held => dictionary'[d] = "live"
  <2>1. CASE \E t \in Threads, d \in Dicts : NewDict(t, d)
    BY <2>1 DEF NewDict, IInv, TypeOK, Fates
  <2>2. CASE \E o \in held : Forget(o)
    BY <2>2 DEF Forget, IInv, TypeOK
  <2>3. CASE \E d \in Dicts : CollectDict(d)
    <3>1. PICK d \in Dicts : CollectDict(d)
      BY <2>3
    <3>2. d \notin held /\ \A t \in Threads : frame[t].dict # d
      BY <3>1 DEF CollectDict, Marked
    <3> QED BY <3>1, <3>2 DEF CollectDict, Free, IInv, TypeOK, Fates
  <2>4. CASE UNCHANGED vars
    BY <2>4 DEF vars, IInv, TypeOK
  <2> QED BY <2>1, <2>2, <2>3, <2>4
<1>2. held' \cap Streams \subseteq held
  BY <1>1 DEF LifecycleAssumption
<1>3. TypeOK'
  BY <1>1 DEF IInv, TypeOK
<1>4. FreedOnce'
  BY <1>1 DEF IInv, FreedOnce
<1>5. ContextsOfMethods' /\ ContextsOfStreams' /\ StreamsInNew'
  BY <1>1 DEF IInv, ContextsOfMethods, ContextsOfStreams, StreamsInNew, HasContext, Active
<1>6. StreamsInUse'
  BY <1>1, <1>2 DEF IInv, StreamsInUse, Active
<1>7. DictsInUse'
  BY <1>1 DEF IInv, DictsInUse, Active, Working
<1> QED BY <1>3, <1>4, <1>5, <1>6, <1>7 DEF IInv

LEMMA StepIsOwned == LifecycleAssumption /\ IInv /\ [Next]_vars => IInv'
<1> SUFFICES ASSUME LifecycleAssumption, IInv, [Next]_vars PROVE IInv'
  OBVIOUS
<1>1. ASSUME NEW t \in Threads, BeginCompress(t) PROVE IInv'
  BY <1>1, OneShotBegins DEF BeginCompress, Classes, IInv, TypeOK
<1>2. ASSUME NEW t \in Threads, BeginDecompress(t) PROVE IInv'
  BY <1>2, OneShotBegins DEF BeginDecompress, Classes, IInv, TypeOK
<1>3. ASSUME NEW t \in Threads, Active(t), frame[t].method # "call",
             \/ ParametersRejected(t) \/ ParametersRaise(t) \/ EndCompress(t) \/ InterruptCompress(t)
             \/ EndDecompress(t) \/ DecompressFails(t)
      PROVE IInv'
  BY <1>3, MethodLeaves DEF ParametersRejected, ParametersRaise, EndCompress, InterruptCompress,
    EndDecompress, DecompressFails, Reject, Raise, Return, FreeAfterUse, HasContext
<1>4. ASSUME NEW t \in Threads,
             \/ ParametersRejected(t) \/ ParametersRaise(t) \/ EndCompress(t) \/ InterruptCompress(t)
             \/ EndDecompress(t) \/ DecompressFails(t)
      PROVE Active(t) /\ frame[t].method # "call"
  BY <1>4 DEF ParametersRejected, ParametersRaise, EndCompress, InterruptCompress,
    EndDecompress, DecompressFails, InParameters, Active, IInv, StreamsInUse
<1>5. CASE \E t \in Threads : Method(t)
  BY <1>1, <1>2, <1>3, <1>4, <1>5, NewBegins, ParametersAreSet, NewEnds, CallBegins, CallEnds
  DEF Method
<1>6. CASE \E s \in Streams : CollectStream(s)
  BY <1>6, StreamIsCollected
<1> QED BY <1>5, <1>6, ProgramSteps DEF Next

LEMMA OwnedIsAlive == LifecycleAssumption /\ IInv => AliveWhileUsed
<1> SUFFICES ASSUME LifecycleAssumption, IInv PROVE AliveWhileUsed
  OBVIOUS
<1>1. ASSUME NEW t \in Threads, Working(t) PROVE context[frame[t].ctx] = "live"
  <2>1. Active(t) /\ frame[t].ctx \in Contexts /\ frame[t].ctx # None
    BY <1>1, FrameFields DEF IInv, Working, Active, LifecycleAssumption
  <2>2. CASE HasContext(t)
    BY <2>2 DEF IInv, ContextsOfMethods
  <2>3. CASE frame[t].method = "call"
    BY <2>1, <2>3 DEF IInv, StreamsInUse, ContextsOfStreams
  <2> QED BY <2>1, <2>2, <2>3 DEF HasContext
<1>2. ASSUME NEW t \in Threads, Working(t), frame[t].method \in {"compress", "decompress"},
             refers[frame[t].ctx] \in Dicts
      PROVE  dictionary[refers[frame[t].ctx]] = "live"
  <2>1. frame[t].dict \in Dicts /\ refers[frame[t].ctx] = frame[t].dict
    BY <1>2 DEF IInv, DictsInUse, LifecycleAssumption
  <2> QED BY <1>2, <2>1 DEF IInv, DictsInUse, Working, Active
<1> QED BY <1>1, <1>2 DEF AliveWhileUsed, ContextLivesWhileUsed, OneShotDictionaryLives, IInv

(* However methods, raises and the collector interleave, the variables keep *)
(* their types.                                                             *)
THEOREM TypeCorrect == ASSUME LifecycleAssumption PROVE Spec => []TypeOK
<1>1. Init => IInv
  BY InitIsOwned
<1>2. IInv /\ [Next]_vars => IInv'
  BY StepIsOwned
<1>3. IInv => TypeOK
  BY DEF IInv
<1> QED BY <1>1, <1>2, <1>3, PTL DEF Spec

(* For any number of threads, contexts, streaming objects and dictionaries: *)
(* whoever works with a context, or with the dictionary of a one-shot       *)
(* method, has it alive, and no way through the raises of common.h and the  *)
(* finalizers frees anything twice.                                         *)
THEOREM UsedIsAlive == ASSUME LifecycleAssumption PROVE Spec => []AliveWhileUsed
<1>1. Init => IInv
  BY InitIsOwned
<1>2. IInv /\ [Next]_vars => IInv'
  BY StepIsOwned
<1>3. IInv => AliveWhileUsed
  BY OwnedIsAlive
<1> QED BY <1>1, <1>2, <1>3, PTL DEF Spec

LEMMA StepLeaksByRaising == LifecycleAssumption /\ IInv /\ [Next]_vars => OnlyRaisesLeak
<1> SUFFICES ASSUME LifecycleAssumption, IInv, [Next]_vars,
                    ~(frame' # frame /\ last' = "raised")
             PROVE  Leaked' = Leaked
  BY DEF OnlyRaisesLeak
<1> DEFINE Leaks(c) == context[c] = "live" /\ ~Owned(c) /\ ~InMethod(c)
<1> SUFFICES ASSUME NEW c \in Contexts PROVE Leaks(c)' <=> Leaks(c)
  BY Zenon DEF Leaked
<1>c. c # None
  BY DEF LifecycleAssumption
<1>1. ASSUME NEW t \in Threads, Begins(t) PROVE Leaks(c)' <=> Leaks(c)
  <2>1. PICK b \in Contexts, method \in Methods, class \in Classes, self \in Streams \cup {None},
             d \in DictArguments :
          Create(b) /\ Enter(t, method, class, self, b, d, "parameters")
    BY <1>1 DEF Begins, BeginCompress, BeginDecompress, BeginNew, Methods, Classes
  <2> DEFINE r == [method |-> method, class |-> class, ctx |-> b, self |-> self, dict |-> d,
                   at |-> "parameters"]
  <2>2. r.ctx = b /\ frame' = [frame EXCEPT ![t] = r]
    BY <2>1 DEF Enter
  <2> HIDE DEF r
  <2>3. frame'[t].ctx = b /\ frame[t] = Idle /\ \A u \in Threads \ {t} : frame'[u] = frame[u]
    BY <1>1, <2>2 DEF Begins, BeginCompress, BeginDecompress, BeginNew, IInv, TypeOK
  <2>4. frame[t].ctx = None
    BY <2>3 DEF Idle
  <2>5. context[b] = "none" /\ \A a \in Contexts \ {b} : context'[a] = context[a]
    BY <2>1 DEF Create, IInv, TypeOK
  <2>6. /\ owned' = owned
        /\ \A s \in Streams : owned[s] # None => stream'[s] = stream[s]
    BY <1>1 DEF Begins, BeginCompress, BeginDecompress, BeginNew, OwnsAtFirst, IInv, TypeOK, ContextsOfStreams
  <2>7. (c # b => (InMethod(c)' <=> InMethod(c))) /\ InMethod(b)'
    BY <2>3, <2>4, <1>c DEF InMethod
  <2>8. Owned(c)' <=> Owned(c)
    BY <2>6, <1>c DEF Owned
  <2> QED BY <2>5, <2>7, <2>8
<1>2. ASSUME NEW t \in Threads, ParametersSet(t) PROVE Leaks(c)' <=> Leaks(c)
  <2>1. \A u \in Threads : frame'[u].ctx = frame[u].ctx
    BY <1>2, FrameFields DEF ParametersSet, InParameters, Active, IInv, TypeOK
  <2> QED BY <1>2, <2>1 DEF ParametersSet, Owned, InMethod
<1>3. ASSUME NEW t \in Threads, ParametersRejected(t) \/ EndCompress(t) \/ EndDecompress(t)
      PROVE Leaks(c)' <=> Leaks(c)
  <2>1. FreeContext(frame[t].ctx) /\ (Reject(t) \/ Return(t)) /\ UNCHANGED <<owned, stream>>
    BY <1>3 DEF ParametersRejected, EndCompress, EndDecompress, FreeAfterUse
  <2>2. frame[t].ctx \in Contexts /\ context[frame[t].ctx] = "live"
    BY <1>3, OwnedIsAlive, FrameFields DEF ParametersRejected, EndCompress, EndDecompress, IInv,
      InParameters, Active, ContextsOfMethods, HasContext, StreamsInUse
  <2>3. /\ context'[frame[t].ctx] = "freed"
        /\ \A b \in Contexts \ {frame[t].ctx} : context'[b] = context[b]
    BY <2>1, <2>2 DEF FreeContext, Free, IInv, TypeOK
  <2>4. frame' = [frame EXCEPT ![t] = Idle]
    BY <2>1 DEF Reject, Return, Leave
  <2>5. frame'[t].ctx = None /\ \A u \in Threads \ {t} : frame'[u] = frame[u]
    BY <2>4 DEF IInv, TypeOK, Idle
  <2>6. c # frame[t].ctx => (InMethod(c)' <=> InMethod(c))
    BY <2>5, <1>c DEF InMethod
  <2>7. InMethod(frame[t].ctx)
    BY DEF InMethod
  <2> QED BY <2>1, <2>3, <2>6, <2>7 DEF Owned
<1>4. ASSUME NEW t \in Threads, ParametersRaise(t) \/ InterruptCompress(t) \/ DecompressFails(t)
      PROVE FALSE
  <2>1. frame[t].at # "idle" /\ frame' = [frame EXCEPT ![t] = Idle] /\ last' = "raised"
    BY <1>4 DEF ParametersRaise, InterruptCompress, DecompressFails, InParameters, Raise, Leave
  <2>2. frame'[t].at = "idle"
    BY <2>1 DEF IInv, TypeOK, Idle
  <2> QED BY <2>1, <2>2
<1>5. ASSUME NEW t \in Threads, EndNew(t) PROVE Leaks(c)' <=> Leaks(c)
  <2>1. /\ frame[t].self \in Streams /\ stream[frame[t].self] \in Classes
        /\ owned[frame[t].self] = None
    BY <1>5 DEF EndNew, IInv, StreamsInNew, HasContext, Active
  <2>2. /\ owned' = [owned EXCEPT ![frame[t].self] = frame[t].ctx] /\ UNCHANGED <<context, stream>>
        /\ frame' = [frame EXCEPT ![t] = Idle]
    BY <1>5 DEF EndNew, Return, Leave
  <2>3. frame'[t].ctx = None /\ \A u \in Threads \ {t} : frame'[u] = frame[u]
    BY <2>2 DEF IInv, TypeOK, Idle
  <2>4. /\ owned'[frame[t].self] = frame[t].ctx
        /\ \A s \in Streams \ {frame[t].self} : owned'[s] = owned[s]
    BY <2>1, <2>2 DEF IInv, TypeOK
  <2>5. CASE c = frame[t].ctx
    BY <2>1, <2>2, <2>4, <2>5 DEF Owned, InMethod
  <2>6. CASE c # frame[t].ctx
    <3>1. InMethod(c)' <=> InMethod(c)
      BY <2>3, <2>6, <1>c DEF InMethod
    <3>2. Owned(c)' <=> Owned(c)
      BY <2>1, <2>2, <2>4, <2>6, <1>c DEF Owned
    <3> QED BY <2>2, <3>1, <3>2
  <2> QED BY <2>5, <2>6
<1>6. ASSUME NEW t \in Threads, BeginCall(t) \/ EndCall(t) PROVE Leaks(c)' <=> Leaks(c)
  <2>1. UNCHANGED <<context, owned, stream>>
    BY <1>6 DEF BeginCall, EndCall
  <2>2. \A u \in Threads \ {t} : frame'[u] = frame[u]
    BY <1>6 DEF BeginCall, EndCall, Enter, Return, Leave, IInv, TypeOK
  <2>3. frame[t].ctx = c => Owned(c)
    <3>1. CASE BeginCall(t)
      BY <3>1, <1>c DEF BeginCall, Idle
    <3>2. CASE EndCall(t)
      <4>1. frame[t] # Idle
        BY <3>2 DEF EndCall, Idle, LifecycleAssumption, Methods
      <4> QED BY <3>2, <4>1, FrameFields DEF EndCall, IInv, StreamsInUse, Owned
    <3> QED BY <1>6, <3>1, <3>2
  <2>4. frame'[t].ctx = c => Owned(c)
    <3>1. CASE EndCall(t)
      BY <3>1, <1>c DEF EndCall, Return, Leave, IInv, TypeOK, Idle
    <3>2. CASE BeginCall(t)
      <4>1. PICK s \in held \cap Streams : Enter(t, "call", stream[s], s, owned[s], None, "ready")
        BY <3>2 DEF BeginCall
      <4>2. stream[s] \in Classes /\ owned[s] \in Contexts
        BY DEF IInv, StreamsInUse, TypeOK
      <4>3. frame'[t].ctx = owned[s]
        BY <4>1, <4>2, EnterFrame DEF IInv, Methods
      <4> QED BY <4>2, <4>3 DEF Owned
    <3> QED BY <1>6, <3>1, <3>2
  <2>5. Owned(c)' <=> Owned(c)
    BY <2>1 DEF Owned
  <2>6. ~Owned(c) => (InMethod(c)' <=> InMethod(c))
    BY <2>2, <2>3, <2>4 DEF InMethod
  <2> QED BY <2>1, <2>5, <2>6
<1>7. ASSUME NEW s \in Streams, CollectStream(s) PROVE Leaks(c)' <=> Leaks(c)
  <2>1. /\ stream[s] \in Classes /\ UNCHANGED <<owned, frame>>
        /\ stream' = [stream EXCEPT ![s] = "collected"]
        /\ IF owned[s] = None THEN UNCHANGED context ELSE FreeContext(owned[s])
    BY <1>7 DEF CollectStream
  <2>2. InMethod(c)' <=> InMethod(c)
    BY <2>1 DEF InMethod
  <2>3. CASE owned[s] = c
    <3>1. context'[c] # "live"
      BY <2>1, <2>3, <1>c DEF FreeContext, Free, IInv, TypeOK
    <3>2. Owned(c)
      BY <2>1, <2>3 DEF Owned
    <3> QED BY <3>1, <3>2
  <2>4. CASE owned[s] # c
    <3>1. context'[c] = context[c]
      BY <2>1, <2>4 DEF FreeContext, IInv, TypeOK
    <3>2. Owned(c)' <=> Owned(c)
      BY <2>1, <2>4 DEF Owned, IInv, TypeOK
    <3> QED BY <2>2, <3>1, <3>2
  <2> QED BY <2>3, <2>4
<1>8. CASE UNCHANGED <<context, owned, stream, frame>>
  BY <1>8 DEF Owned, InMethod
<1>9. CASE \E t \in Threads : Method(t)
  BY <1>1, <1>2, <1>3, <1>4, <1>5, <1>6, <1>9 DEF Method, Begins
<1>10. CASE \/ \E t \in Threads, d \in Dicts : NewDict(t, d)
            \/ \E o \in held : Forget(o)
            \/ \E d \in Dicts : CollectDict(d)
            \/ UNCHANGED vars
  BY <1>8, <1>10 DEF NewDict, Forget, CollectDict, vars
<1> QED BY <1>7, <1>9, <1>10 DEF Next

(* For any number of them, a context becomes unreachable only in a step in  *)
(* which an exception leaves a method.                                      *)
THEOREM LeaksAreRaises == ASSUME LifecycleAssumption PROVE Spec => [][OnlyRaisesLeak]_vars
<1>1. Init => IInv
  BY InitIsOwned
<1>2. IInv /\ [Next]_vars => IInv' /\ OnlyRaisesLeak
  BY StepIsOwned, StepLeaksByRaising
<1> QED BY <1>1, <1>2, PTL DEF Spec
=============================================================================
