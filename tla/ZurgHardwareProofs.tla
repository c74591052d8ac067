------------------------- MODULE ZurgHardwareProofs -------------------------
(***************************************************************************)
(* Proofs about ZurgHardware for every set of commands, every limit of a   *)
(* Sink and every size of a pipe; the second half is about Collect, for    *)
(* every set of pids and every limit of the file cache.                    *)
(***************************************************************************)
EXTENDS ZurgHardware, CollectInstance, FiniteSetTheorems, SequenceTheorems, TLAPS

(* What the loop has queued. *)
Queued(f) == \E i \in 1..Len(functors) : functors[i] = f

(* No functor is queued twice. *)
QueuedOnce == \A i, j \in 1..Len(functors) : functors[i] = functors[j] => i = j

(* The task has not started: there is nothing. *)
NothingYet ==
  started = "no" =>
    /\ \A c \in Commands : child[c] = "none" /\ fd[c] = "none" /\ events[c] = "off"
                           /\ buf[c] = 0
    /\ functors = <<>> /\ finished = {} /\ dones = 0

(* Command c: the state of its child, its Sink and its functors.           *)
CommandState(c) ==
  /\ child[c] = "none" <=> fd[c] = "none"
  /\ child[c] # "none" => c \in wanted
  /\ child[c] # "none" => (c \in finished => child[c] = "reaped")
  /\ events[c] = "on" => fd[c] = "open" /\ buf[c] <= MaxLength /\ c \notin finished
  /\ buf[c] <= MaxLength + PipeSize
  /\ closes[c] = IF fd[c] = "closed" THEN 1 ELSE 0
  /\ Queued(<<"exit", c>>) => child[c] = "reaped" /\ c \notin finished
  /\ Queued(<<"close", c>>) => events[c] = "off" /\ fd[c] = "open"
  /\ c \in finished /\ fd[c] = "open" => Queued(<<"close", c>>)

(* done_ has run if all commands are done. *)
DoneRan == started = "yes" => dones = IF finished = wanted THEN 1 ELSE 0

IndInv ==
  /\ TypeOK
  /\ QueuedOnce
  /\ NothingYet
  /\ \A c \in Commands : CommandState(c)
  /\ DoneRan

-----------------------------------------------------------------------------
(* A queue after an append and after a removal. *)
LEMMA Appended ==
  ASSUME NEW S, NEW s \in Seq(S), NEW e \in S
  PROVE  /\ Append(s, e) \in Seq(S)
         /\ Len(Append(s, e)) = Len(s) + 1
         /\ \A i \in 1..Len(s) : Append(s, e)[i] = s[i]
         /\ Append(s, e)[Len(s) + 1] = e
  OBVIOUS

LEMMA Removed ==
  ASSUME NEW S, NEW s \in Seq(S), s # <<>>
  PROVE  /\ Tail(s) \in Seq(S)
         /\ 1 \in 1..Len(s) /\ Head(s) = s[1] /\ Head(s) \in S
         /\ \A i \in 1..Len(Tail(s)) : i + 1 \in 1..Len(s) /\ Tail(s)[i] = s[i + 1]
         /\ \A i \in 2..Len(s) : i - 1 \in 1..Len(Tail(s)) /\ s[i] = Tail(s)[i - 1]
  OBVIOUS

Functors == {"exit", "close"} \X Commands

(* A functor that was not queued is queued once. *)
LEMMA QueueGrows ==
  ASSUME IndInv, NEW f \in Functors, ~Queued(f), functors' = Append(functors, f)
  PROVE  /\ functors' \in Seq(Functors)
         /\ QueuedOnce'
         /\ \A g : Queued(g)' <=> Queued(g) \/ g = f
<1>1. functors \in Seq(Functors)
  BY DEF IndInv, TypeOK, Functors
<1>2. /\ functors' \in Seq(Functors)
      /\ Len(functors') = Len(functors) + 1
      /\ \A i \in 1..Len(functors) : functors'[i] = functors[i]
      /\ functors'[Len(functors) + 1] = f
  BY <1>1, Appended
<1>3. Len(functors) \in Nat
  BY <1>1
<1>4. \A i \in 1..Len(functors') : i \in 1..Len(functors) \/ i = Len(functors) + 1
  BY <1>2, <1>3
<1>5. QueuedOnce'
  BY <1>2, <1>3, <1>4 DEF QueuedOnce, Queued, IndInv
<1>6. \A g : Queued(g)' <=> Queued(g) \/ g = f
  BY <1>2, <1>3, <1>4 DEF Queued
<1> QED BY <1>2, <1>5, <1>6

(* The functor at the head is run and is not queued any more. *)
LEMMA QueueShrinks ==
  ASSUME IndInv, functors # <<>>, functors' = Tail(functors)
  PROVE  /\ functors' \in Seq(Functors)
         /\ Head(functors) \in Functors /\ Queued(Head(functors))
         /\ QueuedOnce'
         /\ \A g : Queued(g)' <=> Queued(g) /\ g # Head(functors)
         /\ \A g : Queued(g)' <=> \E i \in 2..Len(functors) : functors[i] = g
<1>1. functors \in Seq(Functors)
  BY DEF IndInv, TypeOK, Functors
<1>2. /\ functors' \in Seq(Functors)
      /\ 1 \in 1..Len(functors) /\ Head(functors) = functors[1] /\ Head(functors) \in Functors
      /\ \A i \in 1..Len(functors') : i + 1 \in 1..Len(functors) /\ functors'[i] = functors[i + 1]
      /\ \A i \in 2..Len(functors) : i - 1 \in 1..Len(functors') /\ functors[i] = functors'[i - 1]
  BY <1>1, Removed
<1>3. Len(functors) \in Nat /\ Len(functors') \in Nat
  BY <1>1, <1>2
<1>4. QueuedOnce'
  <2> SUFFICES ASSUME NEW i \in 1..Len(functors'), NEW j \in 1..Len(functors'),
                      functors'[i] = functors'[j]
               PROVE  i = j
    BY DEF QueuedOnce
  <2>1. i + 1 = j + 1
    BY <1>2 DEF QueuedOnce, IndInv
  <2> QED BY <1>3, <2>1
<1>5. \A g : Queued(g)' <=> \E i \in 2..Len(functors) : functors[i] = g
  <2>1. ASSUME NEW g, NEW i \in 1..Len(functors'), functors'[i] = g
        PROVE  \E j \in 2..Len(functors) : functors[j] = g
    <3>1. i + 1 \in 2..Len(functors)
      BY <1>2, <1>3
    <3> QED BY <1>2, <2>1, <3>1
  <2>2. ASSUME NEW g, NEW i \in 2..Len(functors), functors[i] = g
        PROVE  \E j \in 1..Len(functors') : functors'[j] = g
    BY <1>2, <2>2
  <2> QED BY <2>1, <2>2 DEF Queued
<1>6. \A g : Queued(g)' <=> Queued(g) /\ g # Head(functors)
  <2>1. \A i \in 2..Len(functors) : i \in 1..Len(functors) /\ functors[i] # functors[1]
    BY <1>2, <1>3 DEF QueuedOnce, IndInv
  <2>2. \A i \in 1..Len(functors) : i = 1 \/ i \in 2..Len(functors)
    BY <1>3
  <2>3. ASSUME NEW g, Queued(g)' PROVE Queued(g) /\ g # Head(functors)
    <3>1. PICK i \in 2..Len(functors) : functors[i] = g
      BY <1>5, <2>3
    <3> QED BY <1>2, <2>1, <3>1 DEF Queued
  <2>4. ASSUME NEW g, Queued(g), g # Head(functors) PROVE Queued(g)'
    <3>1. PICK i \in 1..Len(functors) : functors[i] = g
      BY <2>4 DEF Queued
    <3>2. i \in 2..Len(functors)
      BY <1>2, <2>2, <2>4, <3>1
    <3> QED BY <1>5, <3>1, <3>2
  <2> QED BY <2>3, <2>4
<1> QED BY <1>2, <1>4, <1>5, <1>6 DEF Queued

-----------------------------------------------------------------------------
(* The invariant holds at the beginning and is kept by every action. *)

LEMMA IndInit == Init => IndInv
<1> SUFFICES ASSUME Init PROVE IndInv
  OBVIOUS
<1>1. TypeOK
  BY SizesAssumption DEF Init, TypeOK
<1>2. QueuedOnce /\ NothingYet /\ DoneRan
  BY DEF Init, QueuedOnce, NothingYet, DoneRan
<1>3. \A f : ~Queued(f)
  BY DEF Init, Queued
<1>4. \A c \in Commands : CommandState(c)
  BY <1>3, SizesAssumption DEF Init, CommandState
<1> QED BY <1>1, <1>2, <1>4 DEF IndInv

LEMMA IndStart ==
  ASSUME IndInv, NEW fails \in SUBSET wanted, Start(fails)
  PROVE  IndInv'
<1> USE DEF IndInv
<1>1. /\ functors = <<>> /\ finished = {} /\ dones = 0
      /\ functors' = functors /\ wanted' = wanted /\ finished' = fails
      /\ closes' = closes /\ buf' = buf
  BY DEF Start, NothingYet, CommandDone
<1>2. wanted \subseteq Commands /\ wanted # {}
  BY LshwAssumption DEF TypeOK
<1>3. TypeOK'
  BY <1>1, <1>2 DEF Start, TypeOK, CommandDone
<1>4. QueuedOnce' /\ NothingYet'
  BY <1>1 DEF QueuedOnce, NothingYet, Start
<1>5. \A f : ~Queued(f) /\ ~Queued(f)'
  BY <1>1 DEF Queued
<1>6. DoneRan'
  <2>1. dones' = IF fails # {} /\ wanted \subseteq fails THEN 1 ELSE 0
    BY <1>1 DEF Start, CommandDone, AllDone
  <2>2. wanted \subseteq fails <=> fails = wanted
    OBVIOUS
  <2> QED BY <1>1, <1>2, <2>1, <2>2 DEF DoneRan
<1>7. ASSUME NEW c \in Commands PROVE CommandState(c)'
  <2>1. buf[c] = 0 /\ closes[c] = 0
    BY DEF Start, CommandState, NothingYet
  <2> QED BY <1>1, <1>2, <1>5, <2>1, SizesAssumption DEF Start, CommandState, NothingYet
<1> QED BY <1>3, <1>4, <1>6, <1>7

(* The children: nothing of the Sinks changes but the pipe. *)
LEMMA IndChildren ==
  ASSUME IndInv, NEW c \in Commands, Write(c) \/ End(c)
  PROVE  IndInv'
<1> USE DEF IndInv
<1>1. \A f : Queued(f)' <=> Queued(f)
  BY DEF Write, End, Queued
<1>2. TypeOK'
  <2>1. CASE Write(c)
    <3>1. pipe' \in [Commands -> 0..PipeSize]
      BY <2>1, SizesAssumption DEF Write, TypeOK
    <3> QED BY <2>1, <3>1 DEF Write, TypeOK
  <2>2. CASE End(c)
    BY <2>2 DEF End, TypeOK
  <2> QED BY <2>1, <2>2
<1>3. QueuedOnce' /\ NothingYet' /\ DoneRan'
  <2>1. QueuedOnce'
    BY DEF Write, End, QueuedOnce
  <2>2. NothingYet'
    BY DEF Write, End, NothingYet, TypeOK
  <2>3. DoneRan'
    BY DEF Write, End, DoneRan
  <2> QED BY <2>1, <2>2, <2>3
<1>4. ASSUME NEW d \in Commands PROVE CommandState(d)'
  <2>1. CommandState(d) /\ UNCHANGED <<fd, wanted, finished, events, buf, closes>>
    BY DEF Write, End
  <2>2. child'[d] = child[d] \/ (child[d] = "alive" /\ child'[d] = "ended")
    BY DEF Write, End, TypeOK
  <2>3. (Queued(<<"exit", d>>)' <=> Queued(<<"exit", d>>)) /\ (Queued(<<"close", d>>)' <=> Queued(<<"close", d>>))
    BY <1>1
  <2> QED BY <2>1, <2>2, <2>3 DEF CommandState
<1> QED BY <1>2, <1>3, <1>4

LEMMA IndReap ==
  ASSUME IndInv, NEW c \in Commands, Reap(c)
  PROVE  IndInv'
<1> USE DEF IndInv
<1> DEFINE f == <<"exit", c>>
<1>1. f \in Functors /\ ~Queued(f) /\ functors' = Append(functors, f)
  BY DEF Reap, Functors, CommandState
<1>2. /\ functors' \in Seq(Functors)
      /\ QueuedOnce'
      /\ \A g : Queued(g)' <=> Queued(g) \/ g = f
  BY <1>1, QueueGrows
<1>3. TypeOK'
  BY <1>2 DEF Reap, TypeOK, Functors
<1>4. NothingYet' /\ DoneRan'
  BY DEF Reap, NothingYet, DoneRan
<1>5. ASSUME NEW d \in Commands PROVE CommandState(d)'
  <2>1. Queued(<<"close", d>>)' <=> Queued(<<"close", d>>)
    BY <1>2
  <2>2. Queued(<<"exit", d>>)' => Queued(<<"exit", d>>) \/ d = c
    BY <1>2
  <2>3. c \notin finished /\ child[c] = "ended"
    BY DEF Reap, CommandState
  <2> QED BY <2>1, <2>2, <2>3 DEF Reap, CommandState, TypeOK
<1> QED BY <1>2, <1>3, <1>4, <1>5

LEMMA IndOnRead ==
  ASSUME IndInv, NEW c \in Commands, NEW n \in 1..pipe[c], OnRead(c, n)
  PROVE  IndInv'
<1> USE DEF IndInv
<1>1. /\ pipe[c] \in 0..PipeSize /\ n \in Nat /\ n <= PipeSize
      /\ pipe[c] - n \in 0..PipeSize /\ buf[c] + n \in Nat
  BY SizesAssumption DEF TypeOK
<1>2. fd[c] = "open" /\ events[c] = "on" /\ buf[c] <= MaxLength /\ started = "yes"
  BY DEF OnRead, CommandState, NothingYet, TypeOK
<1>3. /\ pipe' = [pipe EXCEPT ![c] = @ - n] /\ buf' = [buf EXCEPT ![c] = @ + n]
      /\ buf'[c] = buf[c] + n /\ buf'[c] <= MaxLength + PipeSize
  BY <1>1, <1>2, SizesAssumption DEF OnRead, TypeOK
<1>4. CASE buf'[c] > MaxLength
  <2> DEFINE f == <<"close", c>>
  <2>1. f \in Functors /\ ~Queued(f) /\ functors' = Append(functors, f)
    BY <1>2, <1>4 DEF OnRead, Functors, CommandState
  <2>2. /\ functors' \in Seq(Functors)
        /\ QueuedOnce'
        /\ \A g : Queued(g)' <=> Queued(g) \/ g = f
    BY <2>1, QueueGrows
  <2>3. events' = [events EXCEPT ![c] = "off"]
    BY <1>4 DEF OnRead
  <2>4. TypeOK'
    <3>1. pipe' \in [Commands -> 0..PipeSize] /\ buf' \in [Commands -> Nat]
      BY <1>1, <1>3 DEF TypeOK
    <3>2. events' \in [Commands -> {"on", "off"}]
      BY <2>3 DEF TypeOK
    <3> QED BY <2>2, <3>1, <3>2 DEF OnRead, TypeOK, Functors
  <2>5. NothingYet' /\ DoneRan'
    BY <1>2 DEF OnRead, NothingYet, DoneRan
  <2>6. ASSUME NEW d \in Commands PROVE CommandState(d)'
    <3>1. Queued(<<"exit", d>>)' <=> Queued(<<"exit", d>>)
      BY <2>2
    <3>2. Queued(<<"close", d>>)' <=> Queued(<<"close", d>>) \/ d = c
      BY <2>2
    <3> QED BY <1>2, <1>3, <2>3, <3>1, <3>2 DEF OnRead, CommandState, TypeOK
  <2> QED BY <2>2, <2>4, <2>5, <2>6
<1>5. CASE ~(buf'[c] > MaxLength)
  <2>1. UNCHANGED <<events, functors>>
    BY <1>5 DEF OnRead
  <2>2. \A f : Queued(f)' <=> Queued(f)
    BY <2>1 DEF Queued
  <2>3. TypeOK'
    BY <1>1, <1>3, <2>1 DEF OnRead, TypeOK
  <2>4. QueuedOnce' /\ NothingYet' /\ DoneRan'
    BY <1>2, <2>1 DEF OnRead, QueuedOnce, NothingYet, DoneRan
  <2>5. buf'[c] <= MaxLength
    BY <1>1, <1>3, <1>5, SizesAssumption
  <2>6. \A d \in Commands : CommandState(d)'
    BY <1>2, <1>3, <2>1, <2>2, <2>5, ZenonT(60) DEF OnRead, CommandState, TypeOK
  <2> QED BY <2>3, <2>4, <2>6
<1> QED BY <1>4, <1>5

LEMMA IndOnClose ==
  ASSUME IndInv, NEW c \in Commands, OnClose(c)
  PROVE  IndInv'
<1> USE DEF IndInv
<1>1. \A f : Queued(f)' <=> Queued(f)
  BY DEF OnClose, Queued
<1>2. TypeOK' /\ QueuedOnce' /\ NothingYet' /\ DoneRan'
  BY DEF OnClose, TypeOK, QueuedOnce, NothingYet, DoneRan
<1>3. \A d \in Commands : CommandState(d)'
  BY <1>1 DEF OnClose, CommandState, TypeOK
<1> QED BY <1>2, <1>3

(* The functor at the head: delayedClose, *)
LEMMA IndDelayedClose ==
  ASSUME IndInv, NEW c \in Commands, functors # <<>>, Head(functors) = <<"close", c>>,
         functors' = Tail(functors), DelayedClose(c),
         UNCHANGED <<wanted, started, child, buf>>
  PROVE  IndInv'
<1> USE DEF IndInv
<1> DEFINE f == <<"close", c>>
<1>1. /\ functors' \in Seq(Functors) /\ QueuedOnce'
      /\ Queued(f) /\ \A g : Queued(g)' <=> Queued(g) /\ g # f
  BY QueueShrinks
<1>2. events[c] = "off" /\ fd[c] = "open" /\ closes[c] = 0
  BY <1>1 DEF CommandState
<1>3. TypeOK'
  BY <1>1, <1>2, SizesAssumption DEF DelayedClose, Close, TypeOK, Functors
<1>4. NothingYet' /\ DoneRan'
  BY DEF DelayedClose, NothingYet, DoneRan
<1>5. ASSUME NEW d \in Commands PROVE CommandState(d)'
  <2>1. Queued(<<"exit", d>>)' <=> Queued(<<"exit", d>>)
    BY <1>1
  <2>2. Queued(<<"close", d>>)' <=> Queued(<<"close", d>>) /\ d # c
    BY <1>1
  <2> QED BY <1>2, <2>1, <2>2 DEF DelayedClose, Close, CommandState, TypeOK
<1> QED BY <1>1, <1>3, <1>4, <1>5

(* or onCommandExit. *)
LEMMA IndOnCommandExit ==
  ASSUME IndInv, NEW c \in Commands, functors # <<>>, Head(functors) = <<"exit", c>>,
         functors' = Tail(functors), OnCommandExit(c),
         UNCHANGED <<wanted, started, child, buf>>
  PROVE  IndInv'
<1> USE DEF IndInv
<1> DEFINE f == <<"exit", c>>
           g == <<"close", c>>
           destroyed == fd[c] = "open" /\ \A i \in 2..Len(functors) : functors[i] # g
<1>1. /\ functors' \in Seq(Functors) /\ QueuedOnce'
      /\ Queued(f) /\ \A h : Queued(h)' <=> Queued(h) /\ h # f
      /\ \A h : Queued(h)' <=> \E i \in 2..Len(functors) : functors[i] = h
  BY QueueShrinks
<1>2. child[c] = "reaped" /\ c \notin finished /\ c \in wanted /\ started = "yes"
  BY <1>1 DEF CommandState, NothingYet, TypeOK
<1>3. finished' = finished \cup {c} /\ dones' = IF wanted \subseteq finished' THEN dones + 1 ELSE dones
  BY DEF OnCommandExit, CommandDone, AllDone
<1>4. events' = [events EXCEPT ![c] = "off"]
  BY DEF OnCommandExit
<1>5. destroyed <=> fd[c] = "open" /\ ~Queued(g)
  <2>1. Queued(g)' <=> Queued(g)
    BY <1>1
  <2> QED BY <1>1, <2>1
<1>6. \/ destroyed /\ Close(c)
      \/ ~destroyed /\ UNCHANGED <<fd, closes, pipe>>
  BY DEF OnCommandExit
<1> HIDE DEF destroyed
<1>7. TypeOK'
  <2>1. finished' \subseteq wanted /\ dones' \in Nat
    BY <1>2, <1>3 DEF TypeOK
  <2>2. /\ fd' \in [Commands -> {"none", "open", "closed"}]
        /\ closes' \in [Commands -> Nat] /\ pipe' \in [Commands -> 0..PipeSize]
    <3>1. CASE Close(c)
      BY <3>1, SizesAssumption, SMTT(40) DEF Close, TypeOK
    <3>2. CASE UNCHANGED <<fd, closes, pipe>>
      BY <3>2 DEF TypeOK
    <3> QED BY <1>6, <3>1, <3>2
  <2>3. events' \in [Commands -> {"on", "off"}]
    BY <1>4 DEF TypeOK
  <2> QED BY <1>1, <2>1, <2>2, <2>3 DEF TypeOK, Functors
<1>8. NothingYet'
  BY <1>2 DEF NothingYet
<1>9. DoneRan'
  <2>1. dones = 0 /\ wanted # finished /\ finished \subseteq wanted
    BY <1>2 DEF DoneRan, TypeOK
  <2> QED BY <1>2, <1>3, <2>1 DEF DoneRan
<1>10. ASSUME NEW d \in Commands PROVE CommandState(d)'
  <2>1. Queued(<<"exit", d>>)' <=> Queued(<<"exit", d>>) /\ d # c
    BY <1>1
  <2>2. Queued(<<"close", d>>)' <=> Queued(<<"close", d>>)
    BY <1>1
  <2>3. CASE d = c
    <3>1. closes[c] = IF fd[c] = "closed" THEN 1 ELSE 0
      BY DEF CommandState
    <3> QED BY <1>2, <1>3, <1>4, <1>5, <1>6, <2>1, <2>2, <2>3, <3>1
        DEF Close, CommandState, TypeOK
  <2>4. CASE d # c
    BY <1>3, <1>4, <1>6, <2>1, <2>2, <2>4, SMTT(40) DEF Close, CommandState, TypeOK
  <2> QED BY <2>3, <2>4
<1> QED BY <1>1, <1>7, <1>8, <1>9, <1>10

LEMMA IndRunFunctor ==
  ASSUME IndInv, RunFunctor
  PROVE  IndInv'
<1>1. /\ functors # <<>> /\ functors' = Tail(functors)
      /\ UNCHANGED <<wanted, started, child, buf>>
  BY DEF RunFunctor
<1>2. Head(functors) \in Functors
  BY <1>1, QueueShrinks
<1>3. PICK k \in {"exit", "close"}, c \in Commands : Head(functors) = <<k, c>>
  BY <1>2 DEF Functors
<1>4. CASE k = "close"
  <2>1. DelayedClose(c)
    BY <1>3, <1>4 DEF RunFunctor
  <2> QED BY <1>1, <1>3, <1>4, <2>1, IndDelayedClose
<1>5. CASE k = "exit"
  <2>1. OnCommandExit(c)
    BY <1>3, <1>5 DEF RunFunctor
  <2> QED BY <1>1, <1>3, <1>5, <2>1, IndOnCommandExit
<1> QED BY <1>4, <1>5

LEMMA IndNext == IndInv /\ [Next]_vars => IndInv'
<1> SUFFICES ASSUME IndInv, [Next]_vars PROVE IndInv'
  OBVIOUS
<1>1. CASE UNCHANGED vars
  <2> USE <1>1 DEF vars, IndInv
  <2>1. TypeOK' /\ QueuedOnce' /\ NothingYet' /\ DoneRan'
    BY DEF TypeOK, QueuedOnce, NothingYet, DoneRan
  <2>2. \A f : Queued(f)' <=> Queued(f)
    BY DEF Queued
  <2>3. \A c \in Commands : CommandState(c)'
    BY <2>2 DEF CommandState
  <2> QED BY <2>1, <2>3
<1> QED
  BY <1>1, IndStart, IndChildren, IndReap, IndOnRead, IndOnClose, IndRunFunctor DEF Next

LEMMA Invariance == Spec => []IndInv
  BY IndInit, IndNext, PTL DEF Spec

-----------------------------------------------------------------------------
(* done_ runs exactly once, when the last of the commands that are wanted  *)
(* is done (GetHardwareTask.h, checkAllDone).                              *)
THEOREM TaskAnsweredOnce == Spec => []AnsweredOnceAtTheEnd
<1>1. IndInv => AnsweredOnceAtTheEnd
  BY DEF IndInv, AnsweredOnceAtTheEnd, NothingYet, DoneRan, TypeOK
<1> QED BY <1>1, Invariance, PTL

(* The Sinks' channels are disabled before they are removed, their pipes   *)
(* closed once and their buffers bounded (Sink.h, onRead, delayedClose and *)
(* the destructor).                                                        *)
THEOREM SinksAreSafe == Spec => []SinksSafe
<1>1. ASSUME IndInv PROVE SinksSafe
  <2> USE <1>1 DEF IndInv
  <2>1. RemovedDisabled
    BY DEF RemovedDisabled, CommandState, Queued, TypeOK
  <2>2. ClosedOnce
    BY DEF ClosedOnce, CommandState, Queued, TypeOK
  <2>3. BoundedOutput
    BY DEF BoundedOutput, CommandState
  <2> QED BY <2>1, <2>2, <2>3 DEF SinksSafe
<1> QED BY <1>1, Invariance, PTL

-----------------------------------------------------------------------------
(***************************************************************************)
(* The other reader of a machine's figures: ProcFs and its FileCache, of   *)
(* module Collect, by CollectInstance.  Its assumptions on the             *)
(* constants are hypotheses of the lemmas.                                 *)
(***************************************************************************)

(* The state but for the cache. *)
FillTypes ==
  /\ alive \in [Pids -> Collector!Times] /\ births \in Collector!Times
  /\ count \in 0..(Period - 1)
  /\ DOMAIN starttime \subseteq Pids
  /\ \A p \in DOMAIN starttime : starttime[p] \in Collector!Times
  /\ phase \in {"boot", "idle", "scan", "open", "read", "process", "close"}
  /\ asker \in {"log", "rpc"} /\ level \in Collector!Levels
  /\ pid \in Pids \cup {0} /\ stat \in Collector!Times
  /\ listed \subseteq Pids /\ IsFiniteSet(listed) /\ stable \subseteq Pids
  /\ records \subseteq Collector!Records
  /\ DOMAIN last = {"processes", "parts"} /\ last.processes \subseteq Collector!Records
  /\ told \subseteq Collector!Tellings

CacheTypes ==
  /\ list \in Seq(Collector!Names)
  /\ DOMAIN file \subseteq Collector!Names
  /\ \A n \in DOMAIN file : file[n] \in Collector!Times
  /\ Collector!CacheAgrees

Filling == phase \in {"scan", "open", "read", "process", "close"}
AtPid == phase \in {"open", "read", "process"}

(* A name is ahead of the sentry in the list. *)
Ahead(n) == \E i, j \in 1..Len(list) : i < j /\ list[i] = n /\ list[j] = Collector!Sentry

(* The pid that is being read is listed and has no record yet; its file is *)
(* the first of the list from open to the record.                          *)
PidFacts ==
  /\ AtPid => pid \in listed /\ \A r \in records : r.pid # pid
  /\ phase \in {"read", "process"} => Len(list) >= 1 /\ list[1] = pid

(* Ahead of the sentry are only files that this fill has used.  As long as *)
(* they fit, the sentry is there and what has a record is ahead of it.     *)
SentryFacts ==
  /\ Filling => \A n \in Collector!Names : Ahead(n) => n \in listed
  /\ Filling /\ Cardinality(listed) < MaxFiles =>
       /\ Collector!Sentry \in DOMAIN file
       /\ \A r \in records : Ahead(r.pid)

(* Of the processes of a pid the last that was told is remembered, and     *)
(* those that this fill has told have their record.                        *)
ToldFacts ==
  /\ \A p \in DOMAIN starttime : \E a \in told : a.pid = p /\ a.start = starttime[p]
  /\ \A a \in told :
       /\ a.pid \in DOMAIN starttime /\ a.start <= starttime[a.pid] /\ a.fill <= count
       /\ Filling /\ a.fill = count => \E r \in records : r.pid = a.pid

(* The records are those of this fill. *)
RecordFacts ==
  /\ ~Filling => records = {}
  /\ \A r \in records : r.pid \in listed
  /\ ToldFacts
  /\ Collector!SnapshotsRight

(* A start time t that was read for p is not later than that of the        *)
(* process which p has now: start times only grow.                         *)
NotLater(p, t) == t <= births /\ (alive[p] = 0 \/ t <= alive[p])

AgeFacts ==
  /\ \A p \in Pids : alive[p] <= births
  /\ \A p \in DOMAIN starttime : NotLater(p, starttime[p])
  /\ phase = "read" => file[pid] # 0
  /\ phase = "process" => /\ NotLater(pid, stat)
                          /\ pid \in DOMAIN starttime => starttime[pid] <= stat

CollectInv ==
  /\ FillTypes /\ CacheTypes /\ PidFacts /\ SentryFacts /\ RecordFacts /\ AgeFacts
  /\ Collector!OnlyUsedStayOpen /\ Collector!UsedStayOpen

-----------------------------------------------------------------------------
(* The list of the cache. *)

LEMMA Constants ==
  ASSUME CollectAssumed
  PROVE  /\ MaxFiles \in Nat \ {0} /\ Period \in Nat \ {0} /\ MaxBirths \in Nat
         /\ 0 \in Collector!Times /\ Collector!Sentry \notin Pids
         /\ Collector!Sentry \in Collector!Names
         /\ Pids \subseteq Collector!Names /\ AskedLevels \subseteq Collector!Levels
BY DEF CollectAssumed, Collector!FilesAssumption, Collector!PidsAssumption, Collector!Times,
   Collector!PeriodAssumption, Collector!LevelsAssumption, Collector!Sentry, Collector!Names

LEMMA Shorter ==
  ASSUME NEW S, NEW s \in Seq(S), NEW p \in 1..Len(s)
  PROVE  /\ Collector!RemoveAt(s, p) \in Seq(S)
         /\ Len(Collector!RemoveAt(s, p)) = Len(s) - 1
         /\ \A i \in 1..(Len(s) - 1) :
              Collector!RemoveAt(s, p)[i] = IF i < p THEN s[i] ELSE s[i + 1]
<1> DEFINE a == SubSeq(s, 1, p - 1)
           b == SubSeq(s, p + 1, Len(s))
<1>0. Len(s) \in Nat /\ p \in Nat /\ 1 <= p /\ p <= Len(s) /\ \A i \in 1..Len(s) : s[i] \in S
  BY LenProperties, ElementOfSeq
<1>1. a \in Seq(S) /\ Len(a) = p - 1 /\ \A i \in 1..(p - 1) : a[i] = s[i]
  <2>1. 1 \in Int /\ p - 1 \in Int /\ \A i \in 1..(p - 1) : s[i] \in S
    BY <1>0
  <2> QED BY <1>0, <2>1, SubSeqProperties
<1>2. b \in Seq(S) /\ Len(b) = Len(s) - p /\ \A i \in 1..(Len(s) - p) : b[i] = s[i + p]
  <2>1. p + 1 \in Int /\ Len(s) \in Int /\ \A i \in (p + 1)..Len(s) : s[i] \in S
    BY <1>0
  <2> QED BY <1>0, <2>1, SubSeqProperties
<1> HIDE DEF a, b
<1>3. /\ a \o b \in Seq(S) /\ Len(a \o b) = Len(s) - 1
      /\ \A i \in 1..(Len(s) - 1) : (a \o b)[i] = IF i <= p - 1 THEN a[i] ELSE b[i - (p - 1)]
  <2>1. /\ a \o b \in Seq(S) /\ Len(a \o b) = Len(a) + Len(b)
        /\ \A i \in 1..(Len(a) + Len(b)) :
             (a \o b)[i] = IF i <= Len(a) THEN a[i] ELSE b[i - Len(a)]
    BY <1>1, <1>2, ConcatProperties
  <2>2. Len(a) + Len(b) = Len(s) - 1
    BY <1>0, <1>1, <1>2
  <2> QED BY <1>1, <2>1, <2>2
<1>4. ASSUME NEW i \in 1..(Len(s) - 1) PROVE (a \o b)[i] = IF i < p THEN s[i] ELSE s[i + 1]
  <2>1. CASE i < p
    BY <1>0, <1>1, <1>3, <2>1
  <2>2. CASE i >= p
    <3>1. i - (p - 1) \in 1..(Len(s) - p) /\ (i - (p - 1)) + p = i + 1 /\ ~(i <= p - 1)
      BY <1>0, <2>2
    <3>2. (a \o b)[i] = b[i - (p - 1)]
      BY <1>3, <3>1
    <3>3. b[i - (p - 1)] = s[i + 1]
      BY <1>2, <3>1
    <3>4. ~(i < p)
      BY <1>0, <2>2
    <3> QED BY <3>2, <3>3, <3>4
  <2>3. i < p \/ i >= p
    BY <1>0
  <2> QED BY <2>1, <2>2, <2>3
<1> QED BY <1>3, <1>4 DEF Collector!RemoveAt, a, b

LEMMA Longer ==
  ASSUME NEW S, NEW s \in Seq(S), NEW x \in S
  PROVE  /\ <<x>> \o s \in Seq(S) /\ Len(<<x>> \o s) = Len(s) + 1
         /\ (<<x>> \o s)[1] = x
         /\ \A i \in 2..(Len(s) + 1) : (<<x>> \o s)[i] = s[i - 1]
<1>1. <<x>> \in Seq(S) /\ Len(<<x>>) = 1 /\ <<x>>[1] = x /\ Len(s) \in Nat
  BY LenProperties
<1>2. /\ <<x>> \o s \in Seq(S) /\ Len(<<x>> \o s) = 1 + Len(s)
      /\ \A i \in 1..(1 + Len(s)) : (<<x>> \o s)[i] = IF i <= 1 THEN <<x>>[i] ELSE s[i - 1]
  BY <1>1, ConcatProperties
<1> QED BY <1>1, <1>2

(* The iterator of a name that is in the map. *)
LEMMA Placed ==
  ASSUME CacheTypes, NEW n \in DOMAIN file
  PROVE  /\ Collector!Place(n) \in 1..Len(list) /\ list[Collector!Place(n)] = n
         /\ \A i \in 1..Len(list) : list[i] = n => i = Collector!Place(n)
         /\ Len(list) \in Nat
<1>1. \E i \in 1..Len(list) : list[i] = n
  BY DEF CacheTypes, Collector!CacheAgrees
<1>2. Collector!Place(n) \in 1..Len(list) /\ list[Collector!Place(n)] = n
  BY <1>1 DEF Collector!Place
<1> QED BY <1>2, LenProperties DEF CacheTypes, Collector!CacheAgrees

(* A list t that has n at its front and then, in their order, the names at *)
(* the positions in kept.                                                  *)
Fronted(t, n, kept) ==
  /\ Len(t) >= 1 /\ t[1] = n
  /\ \A i, j \in 1..Len(t) : i # j => t[i] # t[j]
  /\ {t[i] : i \in 1..Len(t)} = {n} \cup {list[j] : j \in kept}
  /\ \A i, j \in 2..Len(t) : i < j =>
       \E k, l \in 1..Len(list) : k < l /\ list[k] = t[i] /\ list[l] = t[j]
  /\ \A k, l \in kept : k < l => \E i, j \in 1..Len(t) : i < j /\ t[i] = list[k] /\ t[j] = list[l]

LEMMA FrontedBy ==
  ASSUME CacheTypes, NEW n, NEW t \in Seq(Collector!Names), Len(t) >= 1, t[1] = n,
         NEW old \in [2..Len(t) -> 1..Len(list)],
         \A i \in 2..Len(t) : t[i] = list[old[i]] /\ t[i] # n,
         \A i, j \in 2..Len(t) : i < j => old[i] < old[j],
         NEW kept, kept = {old[i] : i \in 2..Len(t)}
  PROVE  Fronted(t, n, kept)
<1>0. Len(t) \in Nat /\ Len(list) \in Nat
  BY LenProperties DEF CacheTypes
<1>1. \A i \in 1..Len(t) : i = 1 \/ i \in 2..Len(t)
  BY <1>0
<1>2. \A i, j \in 2..Len(t) : i # j => t[i] # t[j]
  <2>1. \A k, l \in 1..Len(list) : k # l => list[k] # list[l]
    BY DEF CacheTypes, Collector!CacheAgrees
  <2>2. ASSUME NEW i \in 2..Len(t), NEW j \in 2..Len(t), i # j PROVE old[i] # old[j]
    <3>1. i < j \/ j < i
      BY <2>2, <1>0
    <3>2. old[i] < old[j] \/ old[j] < old[i]
      BY <3>1
    <3>3. old[i] \in 1..Len(list) /\ old[j] \in 1..Len(list)
      OBVIOUS
    <3> QED BY <3>2, <3>3, <1>0
  <2> QED BY <2>1, <2>2
<1>3. \A i, j \in 1..Len(t) : i # j => t[i] # t[j]
  BY <1>1, <1>2
<1>4. {t[i] : i \in 1..Len(t)} = {n} \cup {list[j] : j \in kept}
  <2>1. \A i \in 2..Len(t) : i \in 1..Len(t) /\ old[i] \in kept
    BY <1>0
  <2>2. 1 \in 1..Len(t)
    BY <1>0
  <2>3. ASSUME NEW i \in 1..Len(t) PROVE t[i] \in {n} \cup {list[j] : j \in kept}
    BY <1>1, <2>1
  <2>4. ASSUME NEW j \in kept PROVE \E i \in 1..Len(t) : list[j] = t[i]
    BY <2>1, SMTT(20)
  <2>5. n \in {t[i] : i \in 1..Len(t)}
    BY <2>2
  <2>6. {list[j] : j \in kept} \subseteq {t[i] : i \in 1..Len(t)}
    BY <2>4
  <2>7. {t[i] : i \in 1..Len(t)} \subseteq {n} \cup {list[j] : j \in kept}
    BY <2>3
  <2> QED BY <2>5, <2>6, <2>7
<1>5. ASSUME NEW i \in 2..Len(t), NEW j \in 2..Len(t), i < j
      PROVE  \E k, l \in 1..Len(list) : k < l /\ list[k] = t[i] /\ list[l] = t[j]
  <2>1. old[i] \in 1..Len(list) /\ old[j] \in 1..Len(list) /\ old[i] < old[j]
    BY <1>5
  <2> QED BY <2>1
<1>6. ASSUME NEW k \in kept, NEW l \in kept, k < l
      PROVE  \E i, j \in 1..Len(t) : i < j /\ t[i] = list[k] /\ t[j] = list[l]
  <2>1. PICK i \in 2..Len(t) : old[i] = k
    OBVIOUS
  <2>2. PICK j \in 2..Len(t) : old[j] = l
    OBVIOUS
  <2>3. k \in 1..Len(list) /\ l \in 1..Len(list)
    BY <2>1, <2>2
  <2>4. ~(j < i) /\ i # j
    <3>1. ~(l < k) /\ l # k
      BY <1>0, <1>6, <2>3
    <3> QED BY <2>1, <2>2, <3>1
  <2>5. i < j /\ i \in 1..Len(t) /\ j \in 1..Len(t)
    BY <1>0, <2>4
  <2> QED BY <2>1, <2>2, <2>5
<1> QED BY <1>3, <1>4, <1>5, <1>6 DEF Fronted

(* getFile: the file is at the front, the others keep their order, and only *)
(* the last one can be missing, when the cache is full.                     *)
LEMMA GotFile ==
  ASSUME CollectAssumed, CacheTypes, NEW n \in Collector!Names, NEW time \in Collector!Times,
         Collector!GetFile(n, time)
  PROVE  /\ CacheTypes'
         /\ \E kept \in SUBSET {i \in 1..Len(list) : list[i] # n} :
              /\ Fronted(list', n, kept)
              /\ \A i \in 1..Len(list) :
                   list[i] # n /\ (n \in DOMAIN file \/ Len(list) < MaxFiles \/ i < Len(list))
                     => i \in kept
<1>0. /\ list \in Seq(Collector!Names) /\ Len(list) \in Nat /\ MaxFiles \in Nat \ {0}
      /\ \A i \in 1..Len(list) : list[i] \in Collector!Names
      /\ {list[i] : i \in 1..Len(list)} = DOMAIN file /\ Len(list) <= MaxFiles
      /\ DOMAIN file \subseteq Collector!Names
      /\ \A m \in DOMAIN file : file[m] \in Collector!Times
  BY Constants, LenProperties, ElementOfSeq DEF CacheTypes, Collector!CacheAgrees
<1>1. CASE n \in DOMAIN file
  <2> DEFINE P == Collector!Place(n)
             R == Collector!RemoveAt(list, P)
             t == <<n>> \o R
             old == [i \in 2..Len(t) |-> IF i - 1 < P THEN i - 1 ELSE i]
             kept == {i \in 1..Len(list) : list[i] # n}
  <2>1. list' = t /\ file' = file
    BY <1>1 DEF Collector!GetFile, Collector!MovedToFront
  <2>2. P \in 1..Len(list) /\ list[P] = n /\ \A i \in 1..Len(list) : list[i] = n => i = P
    BY <1>1, Placed
  <2> HIDE DEF P
  <2>3. /\ R \in Seq(Collector!Names) /\ Len(R) = Len(list) - 1
        /\ \A i \in 1..(Len(list) - 1) : R[i] = IF i < P THEN list[i] ELSE list[i + 1]
    BY <1>0, <2>2, Shorter
  <2> HIDE DEF R
  <2>4. /\ t \in Seq(Collector!Names) /\ Len(t) = Len(list) /\ t[1] = n
        /\ \A i \in 2..Len(list) : t[i] = R[i - 1]
    <3>1. /\ t \in Seq(Collector!Names) /\ Len(t) = Len(R) + 1 /\ t[1] = n
          /\ \A i \in 2..(Len(R) + 1) : t[i] = R[i - 1]
      BY <2>3, Longer
    <3> QED BY <1>0, <2>3, <3>1
  <2> HIDE DEF t
  <2>5. \A i \in 2..Len(list) : i - 1 \in 1..(Len(list) - 1) /\ (i - 1) + 1 = i
    BY <1>0
  <2>6. \A i \in 2..Len(list) : t[i] = IF i - 1 < P THEN list[i - 1] ELSE list[i]
    BY <2>3, <2>4, <2>5
  <2>7. \A i \in 2..Len(list) : /\ old[i] \in 1..Len(list) /\ old[i] # P
                                /\ old[i] = IF i - 1 < P THEN i - 1 ELSE i
    BY <1>0, <2>2, <2>4
  <2>8. old \in [2..Len(t) -> 1..Len(list)]
    BY <2>4, <2>7
  <2>9. \A i, j \in 2..Len(t) : i < j => old[i] < old[j]
    BY <1>0, <2>2, <2>4
  <2>10. kept = {old[i] : i \in 2..Len(t)}
    <3>1. ASSUME NEW j \in kept PROVE \E i \in 2..Len(t) : j = old[i]
      <4>1. j \in 1..Len(list) /\ j # P
        BY <2>2
      <4>2. CASE j < P
        <5>1. j + 1 \in 2..Len(t) /\ old[j + 1] = j
          BY <1>0, <2>2, <2>4, <4>1, <4>2
        <5> QED BY <5>1
      <4>3. CASE j > P
        <5>1. j \in 2..Len(t) /\ old[j] = j
          BY <1>0, <2>2, <2>4, <4>1, <4>3
        <5> QED BY <5>1
      <4> QED BY <1>0, <2>2, <4>1, <4>2, <4>3
    <3>2. ASSUME NEW i \in 2..Len(t) PROVE old[i] \in kept
      BY <2>2, <2>4, <2>7
    <3> QED BY <3>1, <3>2
  <2>11. \A i \in 2..Len(t) : t[i] = list[old[i]] /\ t[i] # n
    BY <2>2, <2>4, <2>6, <2>7
  <2> HIDE DEF old
  <2>12. Fronted(t, n, kept)
    <3>1. Len(t) >= 1
      BY <1>0, <2>2, <2>4
    <3> HIDE DEF kept
    <3> QED BY <2>4, <2>8, <2>9, <2>10, <2>11, <3>1, FrontedBy
  <2>13. {t[i] : i \in 1..Len(t)} = DOMAIN file
    <3>1. {t[i] : i \in 1..Len(t)} = {n} \cup {list[j] : j \in kept}
      BY <2>12 DEF Fronted
    <3> QED BY <1>0, <1>1, <3>1
  <2>14. CacheTypes'
    BY <1>0, <2>1, <2>4, <2>12, <2>13 DEF CacheTypes, Collector!CacheAgrees, Fronted
  <2> QED BY <2>1, <2>12, <2>14
<1>2. CASE n \notin DOMAIN file
  <2> DEFINE longer == <<n>> \o list
             wider == [m \in DOMAIN file \cup {n} |-> IF m = n THEN time ELSE file[m]]
  <2>1. IF Len(longer) > MaxFiles
          THEN /\ file' = Collector!Without(wider, {Collector!Last(longer)})
               /\ list' = Collector!Front(longer)
          ELSE file' = wider /\ list' = longer
    BY <1>2 DEF Collector!GetFile
  <2>2. /\ longer \in Seq(Collector!Names) /\ Len(longer) = Len(list) + 1 /\ longer[1] = n
        /\ \A i \in 2..(Len(list) + 1) : longer[i] = list[i - 1]
    BY <1>0, Longer
  <2>3. \A i \in 1..Len(list) : list[i] # n
    BY <1>0, <1>2
  <2>4. /\ DOMAIN wider = DOMAIN file \cup {n}
        /\ \A m \in DOMAIN wider : wider[m] \in Collector!Times
    BY <1>0
  <2> HIDE DEF longer, wider
  <2>5. CASE Len(longer) <= MaxFiles
    <3> DEFINE old == [i \in 2..Len(longer) |-> i - 1]
               kept == 1..Len(list)
    <3>1. list' = longer /\ file' = wider
      BY <1>0, <2>1, <2>2, <2>5
    <3>2. old \in [2..Len(longer) -> 1..Len(list)] /\ kept = {old[i] : i \in 2..Len(longer)}
      <4>1. \A i \in 2..Len(longer) : i - 1 \in 1..Len(list)
        BY <1>0, <2>2
      <4>2. \A j \in 1..Len(list) : j + 1 \in 2..Len(longer) /\ (j + 1) - 1 = j
        BY <1>0, <2>2
      <4> QED BY <4>1, <4>2
    <3>3. \A i \in 2..Len(longer) : longer[i] = list[old[i]] /\ longer[i] # n
      BY <1>0, <2>2, <2>3
    <3>4. \A i, j \in 2..Len(longer) : i < j => old[i] < old[j]
      BY <1>0, <2>2
    <3>5. Fronted(longer, n, kept)
      <4>1. Len(longer) >= 1
        BY <1>0, <2>2
      <4> HIDE DEF old, kept
      <4> QED BY <2>2, <3>2, <3>3, <3>4, <4>1, FrontedBy
    <3>6. {longer[i] : i \in 1..Len(longer)} = DOMAIN wider
      <4>1. {longer[i] : i \in 1..Len(longer)} = {n} \cup {list[j] : j \in kept}
        BY <3>5 DEF Fronted
      <4> QED BY <1>0, <2>4, <4>1
    <3>7. CacheTypes'
      BY <1>0, <2>2, <2>4, <2>5, <3>1, <3>5, <3>6 DEF CacheTypes, Collector!CacheAgrees, Fronted
    <3>8. kept \in SUBSET {i \in 1..Len(list) : list[i] # n}
      BY <2>3
    <3> QED BY <3>1, <3>5, <3>7, <3>8
  <2>6. CASE Len(longer) > MaxFiles
    <3> DEFINE t == Collector!Front(longer)
               old == [i \in 2..Len(t) |-> i - 1]
               kept == 1..(Len(list) - 1)
    <3>0. Len(list) = MaxFiles /\ Len(list) >= 1 /\ Len(list) - 1 \in Nat
      BY <1>0, <2>2, <2>6
    <3>1. list' = t /\ file' = Collector!Without(wider, {list[Len(list)]})
      <4>1. Collector!Last(longer) = list[Len(list)]
        BY <1>0, <2>2, <3>0 DEF Collector!Last
      <4> QED BY <2>1, <2>6, <4>1
    <3>2. /\ t \in Seq(Collector!Names) /\ Len(t) = Len(list)
          /\ \A i \in 1..Len(list) : t[i] = longer[i]
      <4>1. \A i \in 1..(Len(longer) - 1) : longer[i] \in Collector!Names
        BY <1>0, <2>2, ElementOfSeq
      <4>2. 1 \in Int /\ Len(longer) - 1 \in Int /\ Len(longer) - 1 = Len(list)
        BY <1>0, <2>2
      <4>3. t = SubSeq(longer, 1, Len(longer) - 1)
        BY DEF Collector!Front
      <4>4. /\ t \in Seq(Collector!Names)
            /\ Len(t) = IF 1 <= Len(list) THEN Len(list) - 1 + 1 ELSE 0
            /\ \A i \in 1..(Len(list) - 1 + 1) : t[i] = longer[1 + i - 1]
        BY <4>1, <4>2, <4>3, SubSeqProperties
      <4> QED BY <1>0, <3>0, <4>4
    <3> HIDE DEF t
    <3>3. old \in [2..Len(t) -> 1..Len(list)] /\ kept = {old[i] : i \in 2..Len(t)}
      <4>1. \A i \in 2..Len(t) : i - 1 \in 1..Len(list) /\ i - 1 \in kept
        BY <1>0, <3>0, <3>2
      <4>2. \A j \in kept : j + 1 \in 2..Len(t) /\ (j + 1) - 1 = j
        BY <1>0, <3>0, <3>2
      <4> QED BY <4>1, <4>2
    <3>4. \A i \in 2..Len(t) : t[i] = list[old[i]] /\ t[i] # n
      <4>1. \A i \in 2..Len(t) : /\ i \in 1..Len(list) /\ i \in 2..(Len(list) + 1)
                                 /\ i - 1 \in 1..Len(list) /\ old[i] = i - 1
        BY <1>0, <3>2
      <4>2. \A i \in 2..Len(t) : t[i] = longer[i] /\ longer[i] = list[i - 1]
        BY <2>2, <3>2, <4>1
      <4> HIDE DEF old
      <4> QED BY <2>3, <4>1, <4>2
    <3>5. \A i, j \in 2..Len(t) : i < j => old[i] < old[j]
      BY <1>0, <3>2
    <3>6. Fronted(t, n, kept)
      <4>1. Len(t) >= 1 /\ t[1] = n
        BY <1>0, <2>2, <3>0, <3>2
      <4> HIDE DEF old, kept
      <4> QED BY <3>2, <3>3, <3>4, <3>5, <4>1, FrontedBy
    <3>7. \A i \in 1..Len(list) : i = Len(list) \/ i \in kept
      BY <1>0, <3>0
    <3>8. \A i \in kept : i \in 1..Len(list) /\ i # Len(list) /\ list[i] # list[Len(list)]
      <4>1. \A i \in kept : i \in 1..Len(list) /\ i # Len(list) /\ Len(list) \in 1..Len(list)
        BY <1>0, <3>0
      <4> QED BY <4>1 DEF CacheTypes, Collector!CacheAgrees
    <3>9. /\ DOMAIN file' = {n} \cup {list[j] : j \in kept}
          /\ \A m \in DOMAIN file' : file'[m] \in Collector!Times
      <4>1. DOMAIN file' = DOMAIN wider \ {list[Len(list)]}
            /\ \A m \in DOMAIN file' : file'[m] = wider[m]
        BY <3>1 DEF Collector!Without
      <4>2. list[Len(list)] # n
        BY <1>0, <2>3, <3>0
      <4> HIDE DEF kept
      <4>3. DOMAIN file \ {list[Len(list)]} = {list[j] : j \in kept}
        BY <1>0, <3>7, <3>8
      <4> QED BY <2>4, <4>1, <4>2, <4>3
    <3>10. {t[i] : i \in 1..Len(t)} = DOMAIN file'
      BY <3>6, <3>9 DEF Fronted
    <3>11. CacheTypes'
      <4>1. DOMAIN file' \subseteq Collector!Names
        BY <1>0, <2>4, <3>1 DEF Collector!Without
      <4>2. Len(t) <= MaxFiles /\ \A i, j \in 1..Len(t) : i # j => t[i] # t[j]
        BY <1>0, <3>2, <3>6 DEF Fronted
      <4>3. Collector!CacheAgrees'
        BY <3>1, <3>10, <4>2 DEF Collector!CacheAgrees
      <4> QED BY <3>1, <3>2, <3>9, <4>1, <4>3 DEF CacheTypes
    <3>12. kept \in SUBSET {i \in 1..Len(list) : list[i] # n}
      BY <1>0, <2>3, <3>8
    <3>13. ASSUME NEW i \in 1..Len(list),
                  n \in DOMAIN file \/ Len(list) < MaxFiles \/ i < Len(list)
           PROVE  i \in kept
      BY <1>0, <1>2, <3>0, <3>13
    <3> QED BY <3>1, <3>6, <3>11, <3>12, <3>13
  <2> QED BY <1>0, <2>2, <2>5, <2>6
<1> QED BY <1>1, <1>2

(* closeFile: the name leaves the list and the map, the others keep their  *)
(* order.                                                                  *)
LEMMA ClosedFile ==
  ASSUME CollectAssumed, CacheTypes, NEW n \in DOMAIN file, Collector!CloseFile(n)
  PROVE  /\ CacheTypes' /\ DOMAIN file' = DOMAIN file \ {n}
         /\ \A i, j \in 1..Len(list') : i < j =>
              \E k, l \in 1..Len(list) : k < l /\ list[k] = list'[i] /\ list[l] = list'[j]
         /\ \A k, l \in 1..Len(list) : k < l /\ list[k] # n /\ list[l] # n =>
              \E i, j \in 1..Len(list') : i < j /\ list'[i] = list[k] /\ list'[j] = list[l]
<1> DEFINE P == Collector!Place(n)
           R == Collector!RemoveAt(list, P)
           old(i) == IF i < P THEN i ELSE i + 1
           new(k) == IF k < P THEN k ELSE k - 1
<1>0. /\ list \in Seq(Collector!Names) /\ Len(list) \in Nat /\ MaxFiles \in Nat \ {0}
      /\ {list[i] : i \in 1..Len(list)} = DOMAIN file /\ Len(list) <= MaxFiles
      /\ \A i, j \in 1..Len(list) : i # j => list[i] # list[j]
      /\ DOMAIN file \subseteq Collector!Names
      /\ \A m \in DOMAIN file : file[m] \in Collector!Times
  BY Constants, LenProperties DEF CacheTypes, Collector!CacheAgrees
<1>1. P \in 1..Len(list) /\ list[P] = n /\ \A i \in 1..Len(list) : list[i] = n => i = P
  BY Placed
<1>2. list' = R /\ file' = Collector!Without(file, {n})
  BY DEF Collector!CloseFile
<1> HIDE DEF P
<1>3. /\ R \in Seq(Collector!Names) /\ Len(R) = Len(list) - 1
      /\ \A i \in 1..(Len(list) - 1) : R[i] = IF i < P THEN list[i] ELSE list[i + 1]
  BY <1>0, <1>1, Shorter
<1> HIDE DEF R
<1>4. \A i \in 1..Len(R) : old(i) \in 1..Len(list) /\ old(i) # P /\ R[i] = list[old(i)]
  <2>1. \A i \in 1..Len(R) : R[i] = list[old(i)]
    BY <1>3
  <2>2. \A i \in 1..Len(R) : old(i) \in 1..Len(list) /\ old(i) # P
    BY <1>0, <1>1, <1>3
  <2> QED BY <2>1, <2>2
<1>5. \A i, j \in 1..Len(R) : i < j => old(i) < old(j)
  BY <1>0, <1>1, <1>3
<1>6. \A k \in 1..Len(list) : k # P => new(k) \in 1..Len(R) /\ old(new(k)) = k
  BY <1>0, <1>1, <1>3
<1>7. \A k, l \in 1..Len(list) : k # P /\ l # P /\ k < l => new(k) < new(l)
  BY <1>0, <1>1, <1>3
<1>8. \A i, j \in 1..Len(R) : i # j => old(i) # old(j)
  BY <1>0, <1>1, <1>3
<1> HIDE DEF old, new
<1>9. DOMAIN file' = DOMAIN file \ {n} /\ \A m \in DOMAIN file' : file'[m] = file[m]
  BY <1>2 DEF Collector!Without
<1>10. {R[i] : i \in 1..Len(R)} = DOMAIN file \ {n}
  <2>1. ASSUME NEW i \in 1..Len(R) PROVE R[i] \in DOMAIN file \ {n}
    BY <1>0, <1>1, <1>4
  <2>2. ASSUME NEW m \in DOMAIN file \ {n} PROVE \E i \in 1..Len(R) : m = R[i]
    <3>1. PICK k \in 1..Len(list) : list[k] = m
      BY <1>0
    <3>2. k # P
      BY <1>1, <3>1
    <3>3. new(k) \in 1..Len(R) /\ R[new(k)] = m
      BY <1>4, <1>6, <3>1, <3>2
    <3> QED BY <3>3
  <2> QED BY <2>1, <2>2
<1>11. \A i, j \in 1..Len(R) : i # j => R[i] # R[j]
  BY <1>0, <1>4, <1>8
<1>12. CacheTypes'
  <2>1. Len(R) <= MaxFiles
    BY <1>0, <1>3
  <2>2. {list'[i] : i \in 1..Len(list')} = DOMAIN file'
    BY <1>2, <1>9, <1>10
  <2>3. Collector!CacheAgrees'
    BY <1>2, <1>11, <2>1, <2>2 DEF Collector!CacheAgrees
  <2> QED BY <1>0, <1>2, <1>3, <1>9, <2>3 DEF CacheTypes
<1>13. ASSUME NEW i \in 1..Len(R), NEW j \in 1..Len(R), i < j
       PROVE  \E k, l \in 1..Len(list) : k < l /\ list[k] = R[i] /\ list[l] = R[j]
  BY <1>4, <1>5, <1>13
<1>14. ASSUME NEW k \in 1..Len(list), NEW l \in 1..Len(list), k < l, list[k] # n, list[l] # n
       PROVE  \E i, j \in 1..Len(R) : i < j /\ R[i] = list[k] /\ R[j] = list[l]
  <2>1. k # P /\ l # P
    BY <1>1, <1>14
  <2>2. new(k) < new(l) /\ new(k) \in 1..Len(R) /\ new(l) \in 1..Len(R)
    BY <1>6, <1>7, <1>14, <2>1
  <2>3. R[new(k)] = list[k] /\ R[new(l)] = list[l]
    BY <1>4, <1>6, <2>1, <2>2
  <2> QED BY <2>2, <2>3
<1>15. \A i, j \in 1..Len(list') : i < j =>
         \E k, l \in 1..Len(list) : k < l /\ list[k] = list'[i] /\ list[l] = list'[j]
  <2>1. list' = R
    BY <1>2
  <2>2. \A i, j \in 1..Len(R) : i < j =>
          \E k, l \in 1..Len(list) : k < l /\ list[k] = R[i] /\ list[l] = R[j]
    BY <1>13
  <2> HIDE DEF R
  <2> QED BY <2>1, <2>2
<1>16. \A k, l \in 1..Len(list) : k < l /\ list[k] # n /\ list[l] # n =>
         \E i, j \in 1..Len(list') : i < j /\ list'[i] = list[k] /\ list'[j] = list[l]
  BY <1>2, <1>14
<1> QED BY <1>9, <1>12, <1>15, <1>16

(* closeUnusedFiles: what is left is the sentry and what is ahead of it. *)
LEMMA ClosedUnused ==
  ASSUME CollectAssumed, CacheTypes, Collector!CloseUnusedFiles
  PROVE  /\ CacheTypes'
         /\ Collector!Sentry \in DOMAIN file' <=> Collector!Sentry \in DOMAIN file
         /\ Collector!Sentry \in DOMAIN file =>
              \A n \in Collector!Names : n \in DOMAIN file' <=> Ahead(n) \/ n = Collector!Sentry
<1>0. /\ list \in Seq(Collector!Names) /\ Len(list) \in Nat /\ MaxFiles \in Nat \ {0}
      /\ \A i \in 1..Len(list) : list[i] \in Collector!Names
      /\ {list[i] : i \in 1..Len(list)} = DOMAIN file /\ Len(list) <= MaxFiles
      /\ \A i, j \in 1..Len(list) : i # j => list[i] # list[j]
      /\ DOMAIN file \subseteq Collector!Names
      /\ \A m \in DOMAIN file : file[m] \in Collector!Times
  BY Constants, LenProperties, ElementOfSeq DEF CacheTypes, Collector!CacheAgrees
<1>1. CASE Collector!Sentry \notin DOMAIN file
  <2>1. UNCHANGED <<list, file>>
    BY <1>1 DEF Collector!CloseUnusedFiles, Collector!cache
  <2>2. CacheTypes'
    BY <2>1 DEF CacheTypes, Collector!CacheAgrees
  <2> QED BY <1>1, <2>1, <2>2
<1>2. CASE Collector!Sentry \in DOMAIN file
  <2> DEFINE P == Collector!Place(Collector!Sentry)
             t == SubSeq(list, 1, P)
  <2>1. /\ file' = Collector!Without(file, {list[i] : i \in (P + 1)..Len(list)})
        /\ list' = t
    BY <1>2 DEF Collector!CloseUnusedFiles
  <2>2. P \in 1..Len(list) /\ list[P] = Collector!Sentry
        /\ \A i \in 1..Len(list) : list[i] = Collector!Sentry => i = P
    BY <1>2, Placed
  <2> HIDE DEF P
  <2>3. t \in Seq(Collector!Names) /\ Len(t) = P /\ \A i \in 1..P : t[i] = list[i]
    <3>1. 1 \in Int /\ P \in Int /\ 1 <= P /\ \A i \in 1..P : list[i] \in Collector!Names
      BY <1>0, <2>2
    <3>2. /\ t \in Seq(Collector!Names)
          /\ Len(t) = IF 1 <= P THEN P - 1 + 1 ELSE 0
          /\ \A i \in 1..(P - 1 + 1) : t[i] = list[1 + i - 1]
      BY <3>1, SubSeqProperties
    <3> QED BY <3>1, <3>2
  <2> HIDE DEF t
  <2>4. \A i \in 1..Len(list) : i \in 1..P \/ i \in (P + 1)..Len(list)
    BY <1>0, <2>2
  <2>5. \A i \in 1..P : i \in 1..Len(list) /\ \A j \in (P + 1)..Len(list) :
                          j \in 1..Len(list) /\ i # j
    BY <1>0, <2>2
  <2>6. {t[i] : i \in 1..P} = {list[i] : i \in 1..P}
    BY <2>3
  <2>7. /\ DOMAIN file' = {list[i] : i \in 1..P}
        /\ \A m \in DOMAIN file' : m \in DOMAIN file /\ file'[m] = file[m]
    <3>1. /\ DOMAIN file' = DOMAIN file \ {list[i] : i \in (P + 1)..Len(list)}
          /\ \A m \in DOMAIN file' : m \in DOMAIN file /\ file'[m] = file[m]
      BY <2>1 DEF Collector!Without
    <3>2. ASSUME NEW i \in 1..P
          PROVE  list[i] \in DOMAIN file \ {list[j] : j \in (P + 1)..Len(list)}
      BY <1>0, <2>5
    <3>3. ASSUME NEW m \in DOMAIN file, m \notin {list[j] : j \in (P + 1)..Len(list)}
          PROVE  \E i \in 1..P : m = list[i]
      BY <1>0, <2>4, <3>3
    <3> QED BY <3>1, <3>2, <3>3
  <2>8. CacheTypes'
    <3>1. \A i, j \in 1..P : i # j => t[i] # t[j]
      BY <1>0, <2>3, <2>5
    <3>2. P <= MaxFiles
      BY <1>0, <2>2
    <3>3. {list'[i] : i \in 1..Len(list')} = DOMAIN file'
      BY <2>1, <2>3, <2>6, <2>7
    <3>4. Len(list') <= MaxFiles /\ \A i, j \in 1..Len(list') : i # j => list'[i] # list'[j]
      BY <2>1, <2>3, <3>1, <3>2
    <3>5. Collector!CacheAgrees'
      BY <3>3, <3>4 DEF Collector!CacheAgrees
    <3> QED BY <1>0, <2>1, <2>3, <2>7, <3>5 DEF CacheTypes
  <2>9. ASSUME NEW n \in Collector!Names
        PROVE  n \in DOMAIN file' <=> Ahead(n) \/ n = Collector!Sentry
    <3>1. ASSUME n \in DOMAIN file', n # Collector!Sentry PROVE Ahead(n)
      <4>1. PICK i \in 1..P : list[i] = n
        BY <2>7, <3>1
      <4>2. i \in 1..Len(list) /\ i < P
        BY <1>0, <2>2, <3>1, <4>1
      <4> QED BY <2>2, <4>1, <4>2 DEF Ahead
    <3>2. ASSUME Ahead(n) PROVE n \in DOMAIN file'
      <4>1. PICK i, j \in 1..Len(list) : i < j /\ list[i] = n /\ list[j] = Collector!Sentry
        BY <3>2 DEF Ahead
      <4>2. j = P
        BY <2>2, <4>1
      <4>3. i \in 1..P
        BY <1>0, <2>2, <4>1, <4>2
      <4> QED BY <2>7, <4>1, <4>3
    <3>3. Collector!Sentry \in DOMAIN file'
      <4>1. P \in 1..P
        BY <1>0, <2>2
      <4> QED BY <2>2, <2>7, <4>1
    <3> QED BY <3>1, <3>2, <3>3
  <2>10. Collector!Sentry \in DOMAIN file'
    BY <2>9, <1>0, <1>2
  <2> QED BY <1>2, <2>8, <2>9, <2>10
<1> QED BY <1>1, <1>2

-----------------------------------------------------------------------------
(* The steps. *)

LEMMA SameFill ==
  ASSUME CollectInv,
         UNCHANGED <<list, file, starttime, phase, pid, listed, records, last, told>>,
         UNCHANGED <<count, asker>>
  PROVE  /\ CacheTypes' /\ PidFacts' /\ SentryFacts' /\ RecordFacts'
         /\ Collector!OnlyUsedStayOpen' /\ Collector!UsedStayOpen'
<1>1. CacheTypes' /\ PidFacts'
  BY DEF CollectInv, CacheTypes, Collector!CacheAgrees, PidFacts, AtPid
<1>2. SentryFacts'
  BY DEF CollectInv, SentryFacts, Ahead, Filling
<1>3. RecordFacts'
  BY DEF CollectInv, RecordFacts, ToldFacts, Filling, Collector!SnapshotsRight,
     Collector!ToldOnce, Collector!BasicIsKnown, Collector!CmdlineNotOlder
<1> QED BY <1>1, <1>2, <1>3 DEF CollectInv, Collector!OnlyUsedStayOpen, Collector!UsedStayOpen

(* While a fill runs nothing is said of what stays open. *)
LEMMA NotIdle ==
  ASSUME phase' # "idle"
  PROVE  Collector!OnlyUsedStayOpen' /\ Collector!UsedStayOpen'
BY DEF Collector!OnlyUsedStayOpen, Collector!UsedStayOpen

(* What a record without basic relies on does not go away during a fill. *)
LEMMA SameRecords ==
  ASSUME RecordFacts, Filling, listed \subseteq listed', Filling',
         UNCHANGED <<records, starttime, told, count, asker>>
  PROVE  RecordFacts'
BY DEF RecordFacts, ToldFacts, Filling, Collector!SnapshotsRight, Collector!ToldOnce,
   Collector!BasicIsKnown, Collector!CmdlineNotOlder

(* Nothing ages while no process comes or goes and none is read. *)
LEMMA SameAges ==
  ASSUME AgeFacts, UNCHANGED <<alive, births, starttime>>, phase' \notin {"read", "process"}
  PROVE  AgeFacts'
BY DEF AgeFacts, NotLater

LEMMA CollectStart ==
  ASSUME CollectAssumed, Collector!Init
  PROVE  CollectInv
<1>1. /\ list = <<>> /\ file = <<>> /\ starttime = <<>> /\ phase = "boot" /\ records = {}
      /\ count = 0 /\ told = {} /\ listed = {} /\ stable = {} /\ pid = 0 /\ stat = 0
      /\ alive = [p \in Pids |-> 0] /\ births = 0 /\ asker = "log"
      /\ level = Collector!InitialSnapshot /\ last = Collector!Nothing
  BY DEF Collector!Init
<1>2. FillTypes
  <2>1. /\ 0 \in Collector!Times /\ 0 \in 0..(Period - 1) /\ IsFiniteSet({})
        /\ Collector!InitialSnapshot \in Collector!Levels
    BY Constants, FS_EmptySet DEF Collector!InitialSnapshot, Collector!Levels, Collector!InfoOnly
  <2>2. DOMAIN last = {"processes", "parts"} /\ last.processes = {}
    BY <1>1 DEF Collector!Nothing
  <2>3. DOMAIN starttime = {}
    BY <1>1
  <2> QED BY <1>1, <2>1, <2>2, <2>3 DEF FillTypes
<1>3. CacheTypes
  <2>1. list \in Seq(Collector!Names) /\ Len(list) = 0 /\ DOMAIN file = {}
    BY <1>1
  <2>2. {list[i] : i \in 1..Len(list)} = {}
    BY <2>1
  <2> QED BY <2>1, <2>2, Constants DEF CacheTypes, Collector!CacheAgrees
<1>4. PidFacts /\ SentryFacts /\ Collector!OnlyUsedStayOpen /\ Collector!UsedStayOpen
  BY <1>1 DEF PidFacts, AtPid, SentryFacts, Filling, Collector!OnlyUsedStayOpen,
     Collector!UsedStayOpen
<1>5. RecordFacts /\ AgeFacts
  <2>1. DOMAIN starttime = {} /\ \A p \in Pids : alive[p] <= births
    BY <1>1
  <2> QED BY <1>1, <2>1 DEF RecordFacts, ToldFacts, AgeFacts, Collector!SnapshotsRight,
       Collector!ToldOnce, Collector!BasicIsKnown, Collector!CmdlineNotOlder
<1> QED BY <1>2, <1>3, <1>4, <1>5 DEF CollectInv

LEMMA CollectProcesses ==
  ASSUME CollectAssumed, CollectInv, NEW p \in Pids, Collector!Birth(p) \/ Collector!Death(p)
  PROVE  CollectInv'
<1>1. /\ UNCHANGED <<list, file, starttime, phase, pid, listed, records, last, told>>
      /\ UNCHANGED <<count, asker, level, stat>>
      /\ \/ births < MaxBirths /\ births' = births + 1 /\ stable' = stable
            /\ alive' = [alive EXCEPT ![p] = births + 1]
         \/ births' = births /\ stable' = stable \ {p} /\ alive' = [alive EXCEPT ![p] = 0]
  BY DEF Collector!Birth, Collector!Death, Collector!cache, Collector!purpose
<1>2. births \in Nat /\ births <= MaxBirths /\ MaxBirths \in Nat
  BY Constants DEF CollectInv, FillTypes, Collector!Times
<1>3. /\ births' \in Collector!Times /\ alive' \in [Pids -> Collector!Times]
      /\ stable' \subseteq Pids
  BY <1>1, <1>2 DEF CollectInv, FillTypes, Collector!Times
<1>4. FillTypes'
  BY <1>1, <1>3 DEF CollectInv, FillTypes
<1>5. ASSUME NEW q \in Pids PROVE alive'[q] <= births'
  <2>1. /\ alive[q] \in Nat /\ alive[q] <= births /\ alive \in [Pids -> Collector!Times]
        /\ births' \in Nat /\ births <= births'
    BY <1>1, <1>2 DEF CollectInv, AgeFacts, FillTypes, Collector!Times
  <2>2. births' >= 0 /\ alive[q] <= births'
    BY <1>1, <1>2, <2>1
  <2>3. alive'[q] \in {alive[q], 0, births'}
    BY <1>1, <2>1
  <2> QED BY <2>1, <2>2, <2>3
<1>6. ASSUME NEW q \in Pids, NEW t \in Collector!Times, NotLater(q, t) PROVE NotLater(q, t)'
  <2>1. alive[q] \in Nat /\ t \in Nat /\ alive \in [Pids -> Collector!Times]
    BY DEF CollectInv, FillTypes, Collector!Times
  <2>2. t <= births' /\ (alive'[q] = alive[q] \/ alive'[q] = 0 \/ alive'[q] = births + 1)
    BY <1>1, <1>2, <1>6, <2>1 DEF NotLater
  <2> QED BY <1>2, <1>6, <2>1, <2>2 DEF NotLater
<1>7. AgeFacts'
  <2>1. \A q \in DOMAIN starttime : q \in Pids /\ starttime[q] \in Collector!Times
    BY DEF CollectInv, FillTypes
  <2>2. \A q \in DOMAIN starttime' : NotLater(q, starttime[q])'
    BY <1>1, <1>6, <2>1 DEF CollectInv, AgeFacts
  <2>3. phase' = "process" => NotLater(pid, stat)'
    BY <1>1, <1>6 DEF CollectInv, AgeFacts, FillTypes, PidFacts, AtPid
  <2>4. /\ phase' = "read" => file'[pid'] # 0
        /\ phase' = "process" /\ pid' \in DOMAIN starttime' => starttime'[pid'] <= stat'
    BY <1>1 DEF CollectInv, AgeFacts
  <2> QED BY <1>1, <1>5, <2>2, <2>3, <2>4 DEF AgeFacts
<1> QED BY <1>1, <1>4, <1>7, SameFill DEF CollectInv

(* A fill begins: the sentry is at the front, nothing is ahead of it. *)
LEMMA CollectFill ==
  ASSUME CollectAssumed, CollectInv, NEW who \in {"log", "rpc"}, NEW lev \in Collector!Levels,
         phase \in {"boot", "idle"}, Collector!Fill(who, lev)
  PROVE  CollectInv'
<1>1. /\ \/ count' = 0 /\ starttime' = <<>> /\ told' = {}
         \/ count + 1 < Period /\ count' = count + 1 /\ UNCHANGED <<starttime, told>>
      /\ Collector!GetFile(Collector!Sentry, 0)
      /\ asker' = who /\ level' = lev /\ listed' = {}
      /\ stable' = {p \in Pids : alive[p] # 0}
      /\ phase' \in {"scan", "close"} /\ last' = Collector!Nothing
      /\ UNCHANGED <<alive, births, pid, stat, records>>
  <2>1. Period \in Nat /\ count \in Nat
    BY Constants DEF CollectInv, FillTypes
  <2> QED BY <2>1 DEF Collector!Fill, Collector!Reset, Collector!table
<1>2. FillTypes /\ CacheTypes /\ RecordFacts
  BY DEF CollectInv
<1>3. records = {}
  BY <1>2 DEF RecordFacts, Filling
<1>4. FillTypes'
  <2>1. count' \in 0..(Period - 1)
    BY <1>1, <1>2, Constants DEF FillTypes
  <2>2. DOMAIN last' = {"processes", "parts"} /\ last'.processes = {}
    BY <1>1 DEF Collector!Nothing
  <2>3. /\ DOMAIN starttime' \subseteq Pids
        /\ \A p \in DOMAIN starttime' : starttime'[p] \in Collector!Times
        /\ told' \subseteq Collector!Tellings
    <3>1. DOMAIN <<>> = {}
      OBVIOUS
    <3> QED BY <1>1, <1>2, <3>1 DEF FillTypes
  <2>4. listed' \subseteq Pids /\ IsFiniteSet(listed') /\ stable' \subseteq Pids
    BY <1>1, FS_EmptySet
  <2> QED BY <1>1, <1>2, <2>1, <2>2, <2>3, <2>4 DEF FillTypes
<1>5. CacheTypes' /\ Len(list') >= 1 /\ list'[1] = Collector!Sentry
  <2>1. Collector!Sentry \in Collector!Names /\ 0 \in Collector!Times
    BY Constants
  <2>2. CacheTypes' /\ \E kept : Fronted(list', Collector!Sentry, kept)
    BY <1>1, <1>2, <2>1, GotFile
  <2> QED BY <2>2 DEF Fronted
<1>6. Len(list') \in Nat /\ Collector!CacheAgrees'
  BY <1>5, LenProperties DEF CacheTypes
<1>7. Collector!Sentry \in DOMAIN file'
  <2>1. 1 \in 1..Len(list')
    BY <1>5, <1>6
  <2> QED BY <1>5, <1>6, <2>1 DEF Collector!CacheAgrees
<1>8. \A n : ~Ahead(n)'
  <2> SUFFICES ASSUME NEW n, Ahead(n)' PROVE FALSE
    OBVIOUS
  <2>1. PICK i, j \in 1..Len(list') : i < j /\ list'[j] = Collector!Sentry
    BY DEF Ahead
  <2>2. j # 1 /\ 1 \in 1..Len(list')
    BY <1>6, <2>1
  <2> QED BY <1>5, <1>6, <2>1, <2>2 DEF Collector!CacheAgrees
<1>9. PidFacts' /\ SentryFacts'
  BY <1>1, <1>3, <1>7, <1>8 DEF PidFacts, AtPid, SentryFacts
<1>10. RecordFacts'
  <2>1. records' = {}
    BY <1>1, <1>3
  <2>2. CASE starttime' = <<>> /\ told' = {}
    <3>1. DOMAIN starttime' = {}
      BY <2>2
    <3> QED BY <2>1, <2>2, <3>1 DEF RecordFacts, ToldFacts, Collector!SnapshotsRight,
         Collector!ToldOnce, Collector!BasicIsKnown, Collector!CmdlineNotOlder
  <2>3. CASE count' = count + 1 /\ UNCHANGED <<starttime, told>>
    <3>1. count \in Nat /\ \A a \in told : a.fill \in Nat
      BY <1>2, Constants DEF FillTypes, Collector!Tellings
    <3>2. \A a \in told : a.fill <= count' /\ a.fill # count'
      BY <1>2, <2>3, <3>1 DEF RecordFacts, ToldFacts
    <3>3. ToldFacts'
      BY <1>2, <2>3, <3>2 DEF RecordFacts, ToldFacts
    <3> QED BY <1>2, <2>1, <2>3, <3>3 DEF RecordFacts, Collector!SnapshotsRight,
         Collector!ToldOnce, Collector!BasicIsKnown, Collector!CmdlineNotOlder
  <2> QED BY <1>1, <2>2, <2>3
<1>11. AgeFacts'
  <2>1. DOMAIN <<>> = {}
    OBVIOUS
  <2> QED BY <1>1, <2>1 DEF CollectInv, AgeFacts, NotLater
<1> QED BY <1>1, <1>4, <1>5, <1>9, <1>10, <1>11, NotIdle DEF CollectInv

LEMMA CollectReadDir ==
  ASSUME CollectAssumed, CollectInv, NEW p \in Pids, Collector!ReadDir(p)
  PROVE  CollectInv'
<1>1. /\ phase = "scan" /\ p \notin listed /\ pid' = p /\ listed' = listed \cup {p}
      /\ phase' = "open"
      /\ UNCHANGED <<alive, births, list, file, count, starttime, asker, level, stat>>
      /\ UNCHANGED <<stable, records, last, told>>
  BY DEF Collector!ReadDir, Collector!table, Collector!cache, Collector!purpose
<1>2. FillTypes /\ CacheTypes /\ SentryFacts /\ RecordFacts
  BY DEF CollectInv
<1>3. IsFiniteSet(listed) /\ IsFiniteSet(listed') /\ Cardinality(listed') = Cardinality(listed) + 1
      /\ Cardinality(listed) \in Nat
  BY <1>1, <1>2, FS_AddElement, FS_CardinalityType DEF FillTypes
<1>4. FillTypes'
  BY <1>1, <1>2, <1>3 DEF FillTypes
<1>5. CacheTypes' /\ \A n : Ahead(n)' <=> Ahead(n)
  BY <1>1, <1>2 DEF CacheTypes, Collector!CacheAgrees, Ahead
<1>6. PidFacts'
  BY <1>1, <1>2 DEF PidFacts, AtPid, RecordFacts
<1>7. SentryFacts'
  <2>1. Cardinality(listed') < MaxFiles => Cardinality(listed) < MaxFiles
    BY <1>3, Constants
  <2> QED BY <1>1, <1>2, <1>5, <2>1 DEF SentryFacts, Filling
<1>8. RecordFacts' /\ AgeFacts'
  BY <1>1, <1>2, SameRecords, SameAges DEF Filling, CollectInv
<1> QED BY <1>1, <1>4, <1>5, <1>6, <1>7, <1>8, NotIdle DEF CollectInv

LEMMA CollectEndDir ==
  ASSUME CollectAssumed, CollectInv, Collector!EndDir
  PROVE  CollectInv'
<1>1. /\ phase = "scan" /\ phase' = "close"
      /\ UNCHANGED <<alive, births, list, file, count, starttime, asker, level, stat, listed>>
      /\ UNCHANGED <<pid, stable, records, last, told>>
  BY DEF Collector!EndDir, Collector!table, Collector!cache, Collector!purpose
<1>2. FillTypes /\ CacheTypes /\ SentryFacts /\ RecordFacts
  BY DEF CollectInv
<1>3. FillTypes'
  BY <1>1, <1>2 DEF FillTypes
<1>4. CacheTypes' /\ \A n : Ahead(n)' <=> Ahead(n)
  BY <1>1, <1>2 DEF CacheTypes, Collector!CacheAgrees, Ahead
<1>5. PidFacts' /\ SentryFacts'
  BY <1>1, <1>2, <1>4 DEF PidFacts, AtPid, SentryFacts, Filling
<1>6. RecordFacts' /\ AgeFacts'
  BY <1>1, <1>2, SameRecords, SameAges DEF Filling, CollectInv
<1> QED BY <1>1, <1>3, <1>4, <1>5, <1>6, NotIdle DEF CollectInv

(* As long as the files of a fill fit, a full cache has an unused file     *)
(* behind the sentry: those ahead of it are listed and are not the pid     *)
(* that is being opened.                                                   *)
LEMMA SentryNotLast ==
  ASSUME CollectAssumed, CollectInv, phase = "open", Cardinality(listed) < MaxFiles,
         pid \notin DOMAIN file, Len(list) >= MaxFiles,
         NEW s \in 1..Len(list), list[s] = Collector!Sentry
  PROVE  s < Len(list)
<1>0. /\ Len(list) \in Nat /\ MaxFiles \in Nat /\ s \in Nat /\ s >= 1
      /\ IsFiniteSet(listed) /\ Cardinality(listed) \in Nat /\ pid \in listed
  BY Constants, LenProperties, FS_CardinalityType
     DEF CollectInv, CacheTypes, FillTypes, PidFacts, AtPid
<1> DEFINE D == 1..(s - 1)
           R == listed \ {pid}
           f == [i \in D |-> list[i]]
<1>1. IsFiniteSet(R) /\ Cardinality(R) = Cardinality(listed) - 1
  BY <1>0, FS_RemoveElement
<1>2. Cardinality(D) = s - 1
  <2>1. 1 \in Int /\ s - 1 \in Int
    BY <1>0
  <2>2. Cardinality(1..(s - 1)) = IF 1 > s - 1 THEN 0 ELSE (s - 1) - 1 + 1
    BY <2>1, FS_Interval
  <2> QED BY <1>0, <2>2
<1>3. ASSUME NEW i \in D PROVE i \in 1..Len(list) /\ list[i] \in R
  <2>1. i \in 1..Len(list) /\ i < s
    BY <1>0
  <2>2. Ahead(list[i])
    BY <2>1 DEF Ahead
  <2>3. list[i] \in Collector!Names /\ list[i] \in DOMAIN file
    BY <2>1, ElementOfSeq DEF CollectInv, CacheTypes, Collector!CacheAgrees
  <2>4. list[i] \in listed
    BY <2>2, <2>3 DEF CollectInv, SentryFacts, Filling
  <2> QED BY <2>1, <2>3, <2>4
<1>4. \A i, j \in D : f[i] = f[j] => i = j
  BY <1>3 DEF CollectInv, CacheTypes, Collector!CacheAgrees
<1>5. f \in Injection(D, R)
  <2>1. f \in [D -> R]
    BY <1>3
  <2> HIDE DEF f, D, R
  <2> QED BY <1>4, <2>1 DEF Injection, IsInjective
<1>6. Cardinality(D) <= Cardinality(R)
  <2> HIDE DEF f, D, R
  <2> QED BY <1>1, <1>5, FS_Injection
<1> HIDE DEF D, R
<1> QED BY <1>0, <1>1, <1>2, <1>6

(* readFile opens: the file of the pid is at the front; ahead of the       *)
(* sentry nothing else is new, and nothing is lost as long as it fits.     *)
LEMMA CollectOpen ==
  ASSUME CollectAssumed, CollectInv, Collector!Open
  PROVE  CollectInv'
<1>1. /\ phase = "open" /\ Collector!GetFile(pid, alive[pid])
      /\ \/ phase' = "scan" /\ pid' = 0
         \/ phase' = "read" /\ pid' = pid /\ file'[pid] # 0
      /\ UNCHANGED <<alive, births, count, starttime, asker, level, stat, listed, stable>>
      /\ UNCHANGED <<records, last, told>>
  BY DEF Collector!Open, Collector!table, Collector!purpose
<1>2. FillTypes /\ CacheTypes /\ PidFacts /\ SentryFacts /\ RecordFacts
  BY DEF CollectInv
<1>3. /\ pid \in listed /\ pid \in Pids /\ pid \in Collector!Names
      /\ alive[pid] \in Collector!Times /\ \A r \in records : r.pid # pid
      /\ pid # Collector!Sentry
  BY <1>1, <1>2, Constants DEF FillTypes, PidFacts, AtPid
<1>4. CacheTypes'
  BY <1>1, <1>2, <1>3, GotFile
<1>5. PICK kept \in SUBSET {i \in 1..Len(list) : list[i] # pid} :
        /\ Fronted(list', pid, kept)
        /\ \A i \in 1..Len(list) :
             list[i] # pid /\ (pid \in DOMAIN file \/ Len(list) < MaxFiles \/ i < Len(list))
               => i \in kept
  BY <1>1, <1>2, <1>3, GotFile
<1>6. FillTypes'
  BY <1>1, <1>2 DEF FillTypes
<1>7. PidFacts'
  BY <1>1, <1>3, <1>5 DEF PidFacts, AtPid, Fronted
<1>8. Len(list) \in Nat /\ Len(list') \in Nat /\ MaxFiles \in Nat
  BY <1>2, <1>4, LenProperties, Constants DEF CacheTypes
<1>9. ASSUME NEW n \in Collector!Names, Ahead(n)' PROVE n \in listed'
  <2>1. PICK i, j \in 1..Len(list') : i < j /\ list'[i] = n /\ list'[j] = Collector!Sentry
    BY <1>9 DEF Ahead, Collector!Sentry
  <2>2. CASE i = 1
    BY <1>1, <1>3, <1>5, <2>1, <2>2 DEF Fronted
  <2>3. CASE i # 1
    <3>1. i \in 2..Len(list') /\ j \in 2..Len(list')
      BY <1>8, <2>1, <2>3
    <3>2. \E k, l \in 1..Len(list) : k < l /\ list[k] = n /\ list[l] = Collector!Sentry
      BY <1>5, <2>1, <3>1 DEF Fronted
    <3>3. Ahead(n)
      BY <3>2 DEF Ahead
    <3> QED BY <1>1, <1>2, <3>3 DEF SentryFacts, Filling
  <2> QED BY <2>2, <2>3
<1>10. ASSUME Cardinality(listed) < MaxFiles
       PROVE  /\ Collector!Sentry \in DOMAIN file'
              /\ \A r \in records : Ahead(r.pid)'
  <2>1. Collector!Sentry \in DOMAIN file /\ \A r \in records : Ahead(r.pid)
    BY <1>1, <1>2, <1>10 DEF SentryFacts, Filling
  <2>2. PICK s \in 1..Len(list) : list[s] = Collector!Sentry
    BY <1>2, <2>1 DEF CacheTypes, Collector!CacheAgrees
  <2>3. pid \in DOMAIN file \/ Len(list) < MaxFiles \/ s < Len(list)
    <3>1. CASE pid \notin DOMAIN file /\ ~(Len(list) < MaxFiles)
      <4>1. Len(list) >= MaxFiles
        BY <1>8, <3>1
      <4> QED BY <1>1, <1>10, <2>2, <3>1, <4>1, SentryNotLast
    <3> QED BY <3>1
  <2>4. \A i \in 1..Len(list) : i <= s /\ list[i] # pid => i \in kept
    BY <1>5, <1>8, <2>3
  <2>5. s \in kept
    BY <1>3, <1>8, <2>2, <2>4
  <2>6. Collector!Sentry \in DOMAIN file'
    <3>1. Collector!Sentry \in {list'[i] : i \in 1..Len(list')}
      BY <1>5, <2>2, <2>5 DEF Fronted
    <3> QED BY <1>4, <3>1 DEF CacheTypes, Collector!CacheAgrees
  <2>7. ASSUME NEW r \in records PROVE Ahead(r.pid)'
    <3>1. PICK i, j \in 1..Len(list) : i < j /\ list[i] = r.pid /\ list[j] = Collector!Sentry
      BY <2>1 DEF Ahead
    <3>2. j = s
      BY <1>2, <2>2, <3>1 DEF CacheTypes, Collector!CacheAgrees
    <3>3. i \in kept /\ i < s
      BY <1>3, <1>8, <2>4, <3>1, <3>2
    <3>4. \E k, l \in 1..Len(list') : k < l /\ list'[k] = r.pid /\ list'[l] = Collector!Sentry
      BY <1>5, <2>2, <2>5, <3>1, <3>3 DEF Fronted
    <3> QED BY <3>4 DEF Ahead, Collector!Sentry
  <2> QED BY <2>6, <2>7
<1>11. SentryFacts'
  <2>1. UNCHANGED <<listed, records>>
    BY <1>1
  <2> QED BY <1>9, <1>10, <2>1 DEF SentryFacts, Collector!Sentry, Collector!Names, Ahead
<1>12. RecordFacts'
  BY <1>1, <1>2, SameRecords DEF Filling
<1>13. AgeFacts'
  BY <1>1 DEF CollectInv, AgeFacts, NotLater
<1> QED BY <1>1, <1>4, <1>6, <1>7, <1>11, <1>12, <1>13, NotIdle DEF CollectInv

(* readFile reads, or closes the file of a process that has ended. *)
LEMMA CollectRead ==
  ASSUME CollectAssumed, CollectInv, Collector!Read
  PROVE  CollectInv'
<1>1. /\ phase = "read"
      /\ \/ /\ stat' = file[pid] /\ alive[pid] = file[pid]
            /\ phase' = "process" /\ UNCHANGED <<list, file, pid>>
         \/ /\ Collector!CloseFile(pid) /\ phase' = "scan" /\ pid' = 0 /\ stat' = stat
      /\ UNCHANGED <<alive, births, count, starttime, asker, level, listed, stable>>
      /\ UNCHANGED <<records, last, told>>
  BY DEF Collector!Read, Collector!table, Collector!cache, Collector!purpose
<1>2. FillTypes /\ CacheTypes /\ PidFacts /\ SentryFacts /\ RecordFacts
  BY DEF CollectInv
<1>3. /\ pid \in listed /\ pid \in Pids /\ Len(list) >= 1 /\ list[1] = pid
      /\ pid # Collector!Sentry /\ \A r \in records : r.pid # pid
  BY <1>1, <1>2, Constants DEF FillTypes, PidFacts, AtPid
<1>4. pid \in DOMAIN file /\ file[pid] \in Collector!Times
  <2>1. 1 \in 1..Len(list)
    BY <1>2, <1>3, LenProperties DEF CacheTypes
  <2> QED BY <1>2, <1>3, <2>1 DEF CacheTypes, Collector!CacheAgrees
<1>5. FillTypes'
  BY <1>1, <1>2, <1>4 DEF FillTypes
<1>6. RecordFacts'
  BY <1>1, <1>2, SameRecords DEF Filling
<1>7. CASE /\ phase' = "process" /\ UNCHANGED <<list, file, pid>>
           /\ stat' = file[pid] /\ alive[pid] = file[pid]
  <2>1. CacheTypes' /\ \A n : Ahead(n)' <=> Ahead(n)
    BY <1>2, <1>7 DEF CacheTypes, Collector!CacheAgrees, Ahead
  <2>2. PidFacts'
    BY <1>1, <1>3, <1>7 DEF PidFacts, AtPid
  <2>3. SentryFacts'
    BY <1>1, <1>2, <1>7, <2>1 DEF SentryFacts, Filling
  <2>4. AgeFacts'
    <3>1. stat' = alive[pid] /\ alive[pid] # 0 /\ alive[pid] <= births
      BY <1>1, <1>3, <1>7 DEF CollectInv, AgeFacts
    <3>2. pid \in DOMAIN starttime => starttime[pid] <= alive[pid]
      BY <3>1 DEF CollectInv, AgeFacts, NotLater
    <3>3. alive[pid] <= alive[pid]
      BY <1>2, <1>3, Constants DEF FillTypes, Collector!Times
    <3> QED BY <1>1, <1>7, <3>1, <3>2, <3>3 DEF CollectInv, AgeFacts, NotLater
  <2> QED BY <1>5, <1>6, <1>7, <2>1, <2>2, <2>3, <2>4, NotIdle DEF CollectInv
<1>8. CASE Collector!CloseFile(pid) /\ phase' = "scan"
  <2>1. /\ CacheTypes' /\ DOMAIN file' = DOMAIN file \ {pid}
        /\ \A i, j \in 1..Len(list') : i < j =>
             \E k, l \in 1..Len(list) : k < l /\ list[k] = list'[i] /\ list[l] = list'[j]
        /\ \A k, l \in 1..Len(list) : k < l /\ list[k] # pid /\ list[l] # pid =>
             \E i, j \in 1..Len(list') : i < j /\ list'[i] = list[k] /\ list'[j] = list[l]
    BY <1>2, <1>4, <1>8, ClosedFile
  <2>2. ASSUME NEW n, Ahead(n)' PROVE Ahead(n)
    <3>1. PICK i, j \in 1..Len(list') : i < j /\ list'[i] = n /\ list'[j] = Collector!Sentry
      BY <2>2 DEF Ahead, Collector!Sentry
    <3>2. PICK k, l \in 1..Len(list) : k < l /\ list[k] = list'[i] /\ list[l] = list'[j]
      BY <2>1, <3>1, Zenon
    <3> QED BY <3>1, <3>2 DEF Ahead
  <2>3. ASSUME NEW n, n # pid, Ahead(n) PROVE Ahead(n)'
    <3>1. PICK k, l \in 1..Len(list) : k < l /\ list[k] = n /\ list[l] = Collector!Sentry
      BY <2>3 DEF Ahead
    <3>2. \E i, j \in 1..Len(list') : i < j /\ list'[i] = n /\ list'[j] = Collector!Sentry
      BY <1>3, <2>1, <2>3, <3>1
    <3> QED BY <3>2 DEF Ahead, Collector!Sentry
  <2>4. PidFacts'
    BY <1>8 DEF PidFacts, AtPid
  <2>5. SentryFacts'
    <3>1. \A n \in Collector!Names : Ahead(n)' => n \in listed
      BY <1>1, <1>2, <2>2 DEF SentryFacts, Filling
    <3>2. Cardinality(listed) < MaxFiles =>
            Collector!Sentry \in DOMAIN file' /\ \A r \in records : Ahead(r.pid)'
      BY <1>1, <1>2, <1>3, <2>1, <2>3 DEF SentryFacts, Filling
    <3>3. UNCHANGED <<listed, records>>
      BY <1>1
    <3> QED BY <3>1, <3>2, <3>3 DEF SentryFacts, Ahead, Collector!Sentry, Collector!Names
  <2>6. AgeFacts'
    BY <1>1, <1>8, SameAges DEF CollectInv
  <2> QED BY <1>5, <1>6, <1>8, <2>1, <2>4, <2>5, <2>6, NotIdle DEF CollectInv
<1> QED BY <1>1, <1>7, <1>8

(* fillProcess: one more record, with basic or of a process that is known. *)
LEMMA CollectFillProcess ==
  ASSUME CollectAssumed, CollectInv, Collector!FillProcess
  PROVE  CollectInv'
<1> DEFINE a0 == [asker |-> asker, fill |-> count, pid |-> pid, start |-> stat]
           r0 == [pid |-> pid, start |-> stat,
                  basic |-> IF Collector!IsNew THEN "set" ELSE "none",
                  cmdline |-> IF Collector!IsNew THEN alive[pid] ELSE 0]
<1>1. /\ phase = "process" /\ records' = records \cup {r0}
      /\ IF Collector!IsNew
           THEN /\ starttime' = [p \in DOMAIN starttime \cup {pid} |->
                                   IF p = pid THEN stat ELSE starttime[p]]
                /\ told' = told \cup {a0}
           ELSE UNCHANGED <<starttime, told>>
      /\ phase' = "scan" /\ pid' = 0 /\ stat' = 0
      /\ UNCHANGED <<alive, births, list, file, count, asker, level, listed, stable, last>>
  BY DEF Collector!FillProcess, Collector!table, Collector!cache, Collector!purpose
<1>2. FillTypes /\ CacheTypes /\ PidFacts /\ SentryFacts /\ RecordFacts
  BY DEF CollectInv
<1>3. /\ pid \in listed /\ pid \in Pids /\ Len(list) >= 1 /\ list[1] = pid
      /\ pid # Collector!Sentry /\ \A r \in records : r.pid # pid
      /\ stat \in Collector!Times /\ alive[pid] \in Collector!Times /\ 0 \in Collector!Times
  BY <1>1, <1>2, Constants DEF FillTypes, PidFacts, AtPid
<1>4. /\ r0 \in Collector!Records /\ r0.pid = pid /\ r0.start = stat
      /\ r0.basic = IF Collector!IsNew THEN "set" ELSE "none"
      /\ r0.cmdline = IF Collector!IsNew THEN alive[pid] ELSE 0
      /\ a0 \in Collector!Tellings
      /\ a0.pid = pid /\ a0.start = stat /\ a0.fill = count /\ a0.asker = asker
  BY <1>2, <1>3 DEF Collector!Records, Collector!Tellings, Collector!Askers, FillTypes
<1> HIDE DEF r0, a0
<1>5. /\ DOMAIN starttime' = DOMAIN starttime \cup {pid} /\ starttime'[pid] = stat
      /\ \A p \in DOMAIN starttime : p # pid => starttime'[p] = starttime[p]
      /\ told' = IF Collector!IsNew THEN told \cup {a0} ELSE told
  BY <1>1 DEF Collector!IsNew
<1>6. FillTypes'
  <2>1. told' \subseteq Collector!Tellings
    BY <1>2, <1>4, <1>5 DEF FillTypes
  <2>2. records' \subseteq Collector!Records
    BY <1>1, <1>2, <1>4 DEF FillTypes
  <2>3. /\ DOMAIN starttime' \subseteq Pids
        /\ \A p \in DOMAIN starttime' : starttime'[p] \in Collector!Times
    BY <1>2, <1>3, <1>5 DEF FillTypes
  <2> QED BY <1>1, <1>2, <1>3, <1>5, <2>1, <2>2, <2>3 DEF FillTypes
<1>7. CacheTypes' /\ (\A n : Ahead(n)' <=> Ahead(n)) /\ PidFacts'
  BY <1>1, <1>2 DEF CacheTypes, Collector!CacheAgrees, Ahead, PidFacts, AtPid
<1>8. SentryFacts'
  <2>1. ASSUME Collector!Sentry \in DOMAIN file PROVE Ahead(pid)
    <3>1. PICK s \in 1..Len(list) : list[s] = Collector!Sentry
      BY <1>2, <2>1 DEF CacheTypes, Collector!CacheAgrees
    <3>2. s # 1 /\ 1 < s /\ 1 \in 1..Len(list)
      BY <1>2, <1>3, <3>1, LenProperties DEF CacheTypes
    <3> QED BY <1>3, <3>1, <3>2 DEF Ahead
  <2> QED BY <1>1, <1>2, <1>4, <1>7, <2>1 DEF SentryFacts, Filling
<1>9. /\ stat \in Nat /\ NotLater(pid, stat)
      /\ pid \in DOMAIN starttime => starttime[pid] <= stat /\ starttime[pid] \in Nat
      /\ \A a \in told : a.start \in Nat
  BY <1>1, <1>2, <1>3 DEF CollectInv, AgeFacts, FillTypes, Collector!Times, Collector!Tellings
<1>10. ASSUME Collector!IsNew, NEW a \in told, a.pid = pid PROVE a.start # stat
  <2>1. pid \in DOMAIN starttime /\ a.start <= starttime[pid]
    BY <1>2, <1>10 DEF RecordFacts, ToldFacts
  <2>2. starttime[pid] # stat
    BY <1>10, <2>1 DEF Collector!IsNew
  <2> QED BY <1>9, <2>1, <2>2
<1>11. ASSUME NEW a \in told, a.pid = pid PROVE a.fill # count
  BY <1>1, <1>2, <1>3, <1>11 DEF RecordFacts, ToldFacts, Filling
<1>12. Collector!SnapshotsRight'
  <2>1. Collector!ToldOnce'
    BY <1>2, <1>4, <1>5, <1>10 DEF RecordFacts, Collector!SnapshotsRight, Collector!ToldOnce
  <2>2. ASSUME NEW r \in records
        PROVE  \E a \in told' : /\ a.pid = r.pid /\ a.start = r.start
                                /\ IF r.basic = "set" THEN a.fill = count' /\ a.asker = asker'
                                                     ELSE a.fill # count'
    BY <1>1, <1>2, <1>5, <2>2 DEF RecordFacts, Collector!SnapshotsRight, Collector!BasicIsKnown
  <2>3. \E a \in told' : /\ a.pid = pid /\ a.start = stat
                         /\ IF r0.basic = "set" THEN a.fill = count' /\ a.asker = asker'
                                               ELSE a.fill # count'
    <3>1. CASE Collector!IsNew
      BY <1>1, <1>4, <1>5, <3>1
    <3>2. CASE ~Collector!IsNew
      <4>1. PICK a \in told : a.pid = pid /\ a.start = stat
        BY <1>2, <3>2 DEF Collector!IsNew, RecordFacts, ToldFacts
      <4> QED BY <1>1, <1>4, <1>5, <1>11, <3>2, <4>1
    <3> QED BY <3>1, <3>2
  <2>4. Collector!BasicIsKnown'
    BY <1>1, <1>4, <2>2, <2>3 DEF Collector!BasicIsKnown
  <2>5. r0.basic = "set" => r0.cmdline = 0 \/ r0.cmdline >= r0.start
    BY <1>3, <1>4, <1>9 DEF NotLater, Collector!Times
  <2>6. Collector!CmdlineNotOlder'
    BY <1>1, <1>2, <2>5 DEF RecordFacts, Collector!SnapshotsRight, Collector!CmdlineNotOlder
  <2> QED BY <2>1, <2>4, <2>6 DEF Collector!SnapshotsRight
<1>13. ToldFacts'
  <2>1. ASSUME NEW p \in DOMAIN starttime'
        PROVE  \E a \in told' : a.pid = p /\ a.start = starttime'[p]
    <3>1. CASE p = pid /\ Collector!IsNew
      BY <1>4, <1>5, <3>1
    <3>2. CASE p = pid /\ ~Collector!IsNew
      BY <1>2, <1>5, <3>2 DEF Collector!IsNew, RecordFacts, ToldFacts
    <3>3. CASE p # pid
      BY <1>2, <1>5, <2>1, <3>3 DEF RecordFacts, ToldFacts
    <3> QED BY <3>1, <3>2, <3>3
  <2>2. ASSUME NEW a \in told
        PROVE  /\ a.pid \in DOMAIN starttime' /\ a.start <= starttime'[a.pid]
               /\ a.fill <= count'
               /\ a.fill = count' => \E r \in records' : r.pid = a.pid
    <3>1. /\ a.pid \in DOMAIN starttime /\ a.start <= starttime[a.pid] /\ a.fill <= count
          /\ a.fill = count => \E r \in records : r.pid = a.pid
      BY <1>1, <1>2 DEF RecordFacts, ToldFacts, Filling
    <3>2. a.start <= starttime'[a.pid]
      <4>1. CASE a.pid = pid
        BY <1>5, <1>9, <3>1, <4>1
      <4>2. CASE a.pid # pid
        BY <1>5, <3>1, <4>2
      <4> QED BY <4>1, <4>2
    <3> QED BY <1>1, <1>5, <3>1, <3>2
  <2>3. /\ a0.pid \in DOMAIN starttime' /\ a0.start <= starttime'[a0.pid]
        /\ a0.fill <= count' /\ \E r \in records' : r.pid = a0.pid
    <3>1. count \in Nat
      BY <1>2, Constants DEF FillTypes
    <3> QED BY <1>1, <1>4, <1>5, <1>9, <3>1
  <2> QED BY <1>5, <2>1, <2>2, <2>3 DEF ToldFacts
<1>14. RecordFacts'
  <2>1. \A r \in records' : r.pid \in listed'
    BY <1>1, <1>2, <1>3, <1>4 DEF RecordFacts
  <2>2. Filling'
    BY <1>1 DEF Filling
  <2> QED BY <1>12, <1>13, <2>1, <2>2 DEF RecordFacts
<1>15. AgeFacts'
  BY <1>1, <1>5, <1>9 DEF CollectInv, AgeFacts, NotLater
<1> QED BY <1>1, <1>6, <1>7, <1>8, <1>14, <1>15, NotIdle DEF CollectInv

(* The instance counts as this module does. *)
LEMMA SameCardinality ==
  ASSUME NEW S PROVE Collector!Cardinality(S) = Cardinality(S)
BY DEF Cardinality, Collector!Cardinality

(* The end of a fill: the unused files are closed and the snapshot is kept. *)
LEMMA CollectEndFill ==
  ASSUME CollectAssumed, CollectInv, Collector!EndFill
  PROVE  CollectInv'
<1>1. /\ phase = "close" /\ Collector!CloseUnusedFiles
      /\ DOMAIN last' = {"processes", "parts"} /\ last'.processes = records /\ records' = {}
      /\ phase' = "idle" /\ asker' = "log" /\ level' = Collector!InfoOnly /\ stable' = {}
      /\ UNCHANGED <<alive, births, count, starttime, pid, stat, listed, told>>
  BY DEF Collector!EndFill, Collector!Save, Collector!table
<1>2. FillTypes /\ CacheTypes /\ SentryFacts /\ RecordFacts
  BY DEF CollectInv
<1>3. /\ CacheTypes'
      /\ Collector!Sentry \in DOMAIN file' <=> Collector!Sentry \in DOMAIN file
      /\ Collector!Sentry \in DOMAIN file =>
           \A n \in Collector!Names : n \in DOMAIN file' <=> Ahead(n) \/ n = Collector!Sentry
  BY <1>1, <1>2, ClosedUnused
<1>4. FillTypes'
  <2>1. Collector!InfoOnly \in Collector!Levels
    BY DEF Collector!InfoOnly, Collector!Levels, Collector!InitialSnapshot
  <2> QED BY <1>1, <1>2, <2>1 DEF FillTypes
<1>5. PidFacts' /\ SentryFacts'
  BY <1>1 DEF PidFacts, AtPid, SentryFacts, Filling
<1>6. RecordFacts' /\ AgeFacts'
  <2>1. UNCHANGED starttime /\ ~Filling'
    BY <1>1 DEF Collector!EndFill, Filling
  <2>2. RecordFacts'
    BY <1>1, <1>2, <2>1 DEF RecordFacts, ToldFacts, Filling, Collector!SnapshotsRight,
       Collector!ToldOnce, Collector!BasicIsKnown, Collector!CmdlineNotOlder
  <2> QED BY <1>1, <2>1, <2>2, SameAges DEF CollectInv
<1>7. Collector!OnlyUsedStayOpen'
  <2>1. ASSUME Collector!Sentry \in DOMAIN file', NEW n \in DOMAIN file'
        PROVE  n \in listed \cup {Collector!Sentry}
    <3>1. n \in Collector!Names
      BY <1>3 DEF CacheTypes, Collector!Names, Collector!Sentry
    <3>2. Ahead(n) \/ n = Collector!Sentry
      BY <1>3, <2>1, <3>1
    <3> QED BY <1>1, <1>2, <3>1, <3>2 DEF SentryFacts, Filling
  <2> QED BY <1>1, <2>1 DEF Collector!OnlyUsedStayOpen, Collector!Sentry
<1>8. Collector!UsedStayOpen'
  <2>1. ASSUME Cardinality(listed) < MaxFiles, NEW r \in records PROVE r.pid \in DOMAIN file'
    <3>1. Collector!Sentry \in DOMAIN file /\ Ahead(r.pid)
      BY <1>1, <1>2, <2>1 DEF SentryFacts, Filling
    <3>2. r.pid \in Collector!Names
      BY <1>2, Constants DEF RecordFacts, FillTypes
    <3> QED BY <1>3, <3>1, <3>2
  <2>2. listed' = listed /\ last'.processes = records
    BY <1>1
  <2>3. Collector!Cardinality(listed') = Cardinality(listed)
    BY <2>2, SameCardinality
  <2> QED BY <2>1, <2>2, <2>3 DEF Collector!UsedStayOpen
<1> QED BY <1>3, <1>4, <1>5, <1>6, <1>7, <1>8 DEF CollectInv

LEMMA CollectInvariance == CollectAssumed /\ Collector!Spec => []CollectInv
<1> SUFFICES ASSUME CollectAssumed PROVE Collector!Spec => []CollectInv
  OBVIOUS
<1>1. Collector!Init => CollectInv
  BY CollectStart
<1>2. CollectInv /\ [Collector!Next]_Collector!vars => CollectInv'
  <2> SUFFICES ASSUME CollectInv, [Collector!Next]_Collector!vars PROVE CollectInv'
    OBVIOUS
  <2>1. ASSUME Collector!Start \/ Collector!Snapshot
               \/ \E lev \in AskedLevels : Collector!GetSnapshot(lev)
        PROVE  CollectInv'
    <3>1. \E who \in {"log", "rpc"}, lev \in Collector!Levels :
            phase \in {"boot", "idle"} /\ Collector!Fill(who, lev)
      <4>1. /\ Collector!InitialSnapshot \in Collector!Levels
            /\ Collector!AndThreads \in Collector!Levels
        BY DEF Collector!InitialSnapshot, Collector!AndThreads, Collector!Levels,
           Collector!InfoOnly
      <4> QED BY <2>1, <4>1, Constants
           DEF Collector!Start, Collector!Snapshot, Collector!GetSnapshot
    <3> QED BY <3>1, CollectFill
  <2>2. CASE UNCHANGED Collector!vars
    <3>1. /\ UNCHANGED <<list, file, starttime, phase, pid, listed, records, last, told>>
          /\ UNCHANGED <<alive, births, count, asker, level, stat, stable>>
      BY <2>2 DEF Collector!vars, Collector!table, Collector!cache, Collector!purpose
    <3>2. FillTypes'
      BY <3>1 DEF CollectInv, FillTypes
    <3>3. AgeFacts'
      BY <3>1 DEF CollectInv, AgeFacts, NotLater
    <3> QED BY <3>1, <3>2, <3>3, SameFill DEF CollectInv
  <2> QED BY <2>1, <2>2, CollectProcesses, CollectReadDir, CollectEndDir, CollectOpen, CollectRead,
       CollectFillProcess, CollectEndFill DEF Collector!Next
<1> QED BY <1>1, <1>2, PTL DEF Collector!Spec

(* The assertions of FileCache::getFile hold: list_ and map_ name the same *)
(* files, each once and at most maxFiles_.  After every fill only files    *)
(* that it used are open, unless the sentry was pushed out, and all that   *)
(* gave a record are, if they fit.                                         *)
THEOREM CacheIsConsistent == CollectAssumed /\ Collector!Spec => []CacheConsistent
<1>1. CollectInv => CacheConsistent
  <2> SUFFICES ASSUME CollectInv PROVE CacheConsistent
    OBVIOUS
  <2>1. Collector!TypeOK
    BY DEF CollectInv, FillTypes, CacheTypes, Collector!TypeOK, Collector!Askers
  <2> QED BY <2>1 DEF CollectInv, CacheTypes, CacheConsistent, Collector!CacheConsistent
<1> QED BY <1>1, CollectInvariance, PTL

(* Between two resets of starttime_ ProcFs::fill sends the constant facts  *)
(* of a process once, to the log or to an RPC, in the first record that it *)
(* has, though pids are used again while a fill runs; a later record is    *)
(* without them, and the command line is not an earlier process's.         *)
THEOREM SnapshotsAreRight == CollectAssumed /\ Collector!Spec => []SnapshotsRight
<1>1. CollectInv => SnapshotsRight
  BY DEF CollectInv, RecordFacts, SnapshotsRight
<1> QED BY <1>1, CollectInvariance, PTL
=============================================================================
