-------------------------- MODULE PostgresQueueProofs --------------------------
(***************************************************************************)
(* Proofs about PostgresQueue: QueueInv is inductive, for every capacity of  *)
(* the channel and every finite set of callers.                            *)
(***************************************************************************)
EXTENDS PostgresQueue, FiniteSetTheorems, SequenceTheorems, TLAPS

USE PostgresQueueAssumption

-----------------------------------------------------------------------------
(* Sequences. *)

\* What Append does to the elements of a queue.
LEMMA Appended ==
  ASSUME NEW S, NEW s \in Seq(S), NEW e \in S
  PROVE  /\ Append(s, e) \in Seq(S) /\ Append(s, e) # <<>>
         /\ Len(s) \in Nat /\ Len(Append(s, e)) = Len(s) + 1
         /\ DOMAIN s = 1 .. Len(s) /\ DOMAIN Append(s, e) = 1 .. Len(s) + 1
         /\ \A i \in 1 .. Len(s) : Append(s, e)[i] = s[i]
         /\ Append(s, e)[Len(s) + 1] = e
         /\ Range(Append(s, e)) = Range(s) \cup {e}
         /\ IsInjective(s) /\ e \notin Range(s) => IsInjective(Append(s, e))
<1> DEFINE t == Append(s, e)  n == Len(s)
<1>1. /\ t \in Seq(S) /\ t # <<>> /\ n \in Nat /\ Len(t) = n + 1
      /\ DOMAIN s = 1 .. n /\ DOMAIN t = 1 .. n + 1
      /\ \A i \in 1 .. n : t[i] = s[i]
      /\ t[n + 1] = e
  BY AppendProperties, LenProperties
<1> HIDE DEF t, n
<1>2. Range(t) = Range(s) \cup {e}
  BY <1>1 DEF Range
<1>3. IsInjective(s) /\ e \notin Range(s) => IsInjective(t)
  BY <1>1 DEF Range, IsInjective
<1> QED  BY <1>1, <1>2, <1>3 DEF t, n

\* What taking the head does.
LEMMA HeadTaken ==
  ASSUME NEW S, NEW s \in Seq(S), s # <<>>
  PROVE  /\ Head(s) \in S /\ Tail(s) \in Seq(S)
         /\ Len(s) \in Nat \ {0} /\ Len(Tail(s)) = Len(s) - 1
         /\ DOMAIN s = 1 .. Len(s) /\ DOMAIN Tail(s) = 1 .. Len(s) - 1
         /\ \A i \in 1 .. Len(s) - 1 : Tail(s)[i] = s[i + 1]
         /\ Head(s) = s[1]
         /\ Range(s) = {Head(s)} \cup Range(Tail(s))
         /\ IsInjective(s) => Head(s) \notin Range(Tail(s)) /\ IsInjective(Tail(s))
<1> DEFINE t == Tail(s)  n == Len(s)  h == Head(s)
<1>1. /\ h \in S /\ t \in Seq(S) /\ n \in Nat \ {0} /\ Len(t) = n - 1
      /\ DOMAIN s = 1 .. n /\ DOMAIN t = 1 .. n - 1
      /\ \A i \in 1 .. n - 1 : t[i] = s[i + 1]
      /\ h = s[1]
  BY HeadTailProperties, LenProperties, EmptySeq
<1> HIDE DEF t, n, h
<1>2. Range(s) = {h} \cup Range(t)
  <2>1. ASSUME NEW i \in 1 .. n  PROVE s[i] \in {h} \cup Range(t)
    <3>1. CASE i = 1
      BY <1>1, <3>1
    <3>2. CASE i # 1
      <4>1. i - 1 \in 1 .. n - 1 /\ t[i - 1] = s[i]
        BY <1>1, <3>2
      <4> QED  BY <1>1, <4>1 DEF Range
    <3> QED  BY <3>1, <3>2
  <2>2. ASSUME NEW i \in 1 .. n - 1  PROVE t[i] \in Range(s)
    <3>1. i + 1 \in 1 .. n /\ t[i] = s[i + 1]
      BY <1>1
    <3> QED  BY <1>1, <3>1 DEF Range
  <2>3. h \in Range(s)
    BY <1>1 DEF Range
  <2> QED  BY <1>1, <2>1, <2>2, <2>3 DEF Range
<1>3. IsInjective(s) => h \notin Range(t) /\ IsInjective(t)
  <2> SUFFICES ASSUME IsInjective(s)  PROVE h \notin Range(t) /\ IsInjective(t)
    OBVIOUS
  <2>1. \A i, j \in 1 .. n : s[i] = s[j] => i = j
    BY <1>1 DEF IsInjective
  <2>2. ASSUME NEW i \in 1 .. n - 1  PROVE t[i] # h
    <3>1. i + 1 \in 1 .. n /\ 1 \in 1 .. n /\ i + 1 # 1
      BY <1>1
    <3> QED  BY <1>1, <2>1, <3>1
  <2>3. ASSUME NEW i \in 1 .. n - 1, NEW j \in 1 .. n - 1, t[i] = t[j]  PROVE i = j
    <3>1. i + 1 \in 1 .. n /\ j + 1 \in 1 .. n /\ s[i + 1] = s[j + 1]
      BY <1>1, <2>3
    <3> QED  BY <2>1, <3>1
  <2> QED  BY <1>1, <2>2, <2>3 DEF Range, IsInjective
<1> QED  BY <1>1, <1>2, <1>3 DEF t, n, h

-----------------------------------------------------------------------------
(* Where commands are. *)

\* A command and its fields.
LEMMA CommandFields ==
  ASSUME NEW o, NEW a, NEW f
  PROVE  /\ Command(o, a, f).op = o /\ Command(o, a, f).arg = a /\ Command(o, a, f).from = f
         /\ o \in Ops /\ a \in 0 .. (MaxRows + MaxSets) /\ f \in Callers \cup {None}
              => Command(o, a, f) \in Commands
BY DEF Command, Commands

\* The worker between two commands holds none.
LEMMA NoCommandFields ==
  /\ NoCommand \notin Commands
  /\ NoCommand.op = "none" /\ NoCommand.arg = 0 /\ NoCommand.from = None
<1>1. NoCommand.op = "none" /\ NoCommand.arg = 0 /\ NoCommand.from = None
  BY DEF NoCommand, Command
<1>2. \A x \in Commands : x.op \in Ops
  BY DEF Commands
<1> QED  BY <1>1, <1>2 DEF Ops

\* The parts of TypeOK that are about the channel.
ChannelOK ==
  /\ queue \in Seq(Commands) /\ waiting \in Seq(Commands)
  /\ spawned \subseteq Commands /\ granted \subseteq Commands /\ IsFiniteSet(granted)
  /\ Len(queue) + Cardinality(granted) <= QueueCap
  /\ waiting # <<>> => Len(queue) + Cardinality(granted) = QueueCap

\* One more command at the end of the queue, for which there was room.
LEMMA QueuedHasRoom ==
  ASSUME ChannelOK, NEW cmd \in Commands, Room, queue' = Append(queue, cmd),
         UNCHANGED <<waiting, granted>>, spawned' \subseteq Commands
  PROVE  ChannelOK' /\ waiting = <<>>
<1>1. Cardinality(granted) \in Nat
  BY FS_CardinalityType DEF ChannelOK
<1>2. queue' \in Seq(Commands) /\ Len(queue') = Len(queue) + 1 /\ Len(queue) \in Nat
  BY Appended DEF ChannelOK
<1> QED  BY <1>1, <1>2 DEF ChannelOK, Room

\* A command waits because there is no room.
LEMMA WaitsForRoom ==
  ASSUME ChannelOK, NEW cmd \in Commands, ~Room, waiting' = Append(waiting, cmd),
         UNCHANGED <<queue, granted>>, spawned' \subseteq Commands
  PROVE  ChannelOK'
<1>1. Cardinality(granted) \in Nat /\ Len(queue) \in Nat
  BY FS_CardinalityType, LenProperties DEF ChannelOK
<1>2. waiting' \in Seq(Commands)
  BY Appended DEF ChannelOK
<1> QED  BY <1>1, <1>2 DEF ChannelOK, Room

\* A command that has its permit enters the queue.
LEMMA GrantedHasRoom ==
  ASSUME ChannelOK, NEW cmd \in granted, granted' = granted \ {cmd}, queue' = Append(queue, cmd),
         UNCHANGED <<waiting, spawned>>
  PROVE  ChannelOK'
<1>1. /\ Cardinality(granted) \in Nat /\ IsFiniteSet(granted')
      /\ Cardinality(granted') = Cardinality(granted) - 1
  BY FS_CardinalityType, FS_RemoveElement DEF ChannelOK
<1>2. queue' \in Seq(Commands) /\ Len(queue') = Len(queue) + 1 /\ Len(queue) \in Nat
  BY Appended DEF ChannelOK
<1> QED  BY <1>1, <1>2 DEF ChannelOK

\* recv gives the place it frees to the first who waits.
LEMMA ReceiveGrants ==
  ASSUME ChannelOK, OnePlace, Receive
  PROVE  ChannelOK'
<1>1. /\ Cardinality(granted) \in Nat /\ queue # <<>>
      /\ queue' = Tail(queue) /\ spawned' = spawned
  BY FS_CardinalityType DEF ChannelOK, Receive
<1>2. queue' \in Seq(Commands) /\ Len(queue') = Len(queue) - 1 /\ Len(queue) \in Nat
  BY <1>1, HeadTaken DEF ChannelOK
<1>3. CASE waiting = <<>>
  BY <1>1, <1>2, <1>3 DEF ChannelOK, Receive
<1>4. CASE waiting # <<>>
  <2>1. /\ waiting' = Tail(waiting) /\ granted' = granted \cup {Head(waiting)}
        /\ waiting' \in Seq(Commands) /\ Head(waiting) \in Commands
        /\ Head(waiting) \in Range(waiting)
    BY <1>4, HeadTaken DEF ChannelOK, Receive
  <2>2. IsFiniteSet(granted') /\ Cardinality(granted') = Cardinality(granted) + 1
    BY <2>1, FS_AddElement DEF ChannelOK, OnePlace
  <2> QED  BY <1>1, <1>2, <1>4, <2>1, <2>2 DEF ChannelOK
<1> QED  BY <1>3, <1>4

\* What is under way is a command, but for the one the worker does not have.
LEMMA UnderWayIsCommands ==
  ASSUME PlacesInv, NEW x \in UnderWay
  PROVE  \/ x \in Commands
         \/ x = NoCommand /\ x.op = "none" /\ x.arg = 0 /\ x.from = None
<1>1. Range(queue) \cup spawned \cup Range(waiting) \cup granted \subseteq Commands
  BY DEF PlacesInv, TypeOK, Range
<1>2. current \in Commands \cup {NoCommand}
  BY DEF PlacesInv, TypeOK
<1> QED  BY <1>1, <1>2, NoCommandFields DEF UnderWay

\* A command that nobody has submitted before.
Fresh(cmd) ==
  /\ cmd \in Commands
  /\ cmd.op = "set" => cmd.arg = sets + 1
  /\ IsRow(cmd) => cmd.arg = rows + 1
  /\ cmd.op \in {"ensure", "query", "insert"} <=> cmd.from # None
  /\ cmd.from # None => caller[cmd.from] = "idle"

\* It is counted and, if somebody awaits its answer, so is that.
Submitted(cmd) ==
  /\ sets' = IF cmd.op = "set" THEN sets + 1 ELSE sets
  /\ rows' = IF IsRow(cmd) THEN rows + 1 ELSE rows
  /\ \A c \in Callers : caller'[c] = IF c = cmd.from THEN "called" ELSE caller[c]

\* A fresh command is nowhere yet.
LEMMA FreshIsNew ==
  ASSUME PlacesInv, NEW cmd, Fresh(cmd)
  PROVE  /\ cmd \notin UnderWay
         /\ \A x \in UnderWay : cmd.from # None => x.from # cmd.from
         /\ \A x \in UnderWay : IsRow(cmd) /\ IsRow(x) => x.arg # cmd.arg
<1>1. rows \in Nat /\ sets \in Nat /\ cmd.op \in Ops
  BY DEF PlacesInv, TypeOK, Fresh, Commands
<1>2. ASSUME NEW x \in UnderWay
      PROVE  /\ cmd.from # None => x.from # cmd.from
             /\ IsRow(cmd) /\ IsRow(x) => x.arg # cmd.arg
             /\ x # cmd
  BY <1>1, <1>2 DEF PlacesInv, Origins, Fresh, IsRow, Ops
<1> QED  BY <1>2

\* It may be put into the queue, behind those who wait, or into a task.
LEMMA NewCommandPlaced ==
  ASSUME PlacesInv, NEW cmd, Fresh(cmd), Submitted(cmd),
         UNCHANGED <<granted, current>>,
         \/ queue' = Append(queue, cmd) /\ UNCHANGED <<spawned, waiting>>
         \/ waiting' = Append(waiting, cmd) /\ UNCHANGED <<queue, spawned>>
         \/ spawned' = spawned \cup {cmd} /\ UNCHANGED <<queue, waiting>>
  PROVE  UnderWay' = UnderWay \cup {cmd} /\ Origins' /\ NoClash' /\ OnePlace'
<1>1. /\ cmd \notin UnderWay
      /\ \A z \in UnderWay : cmd.from # None => z.from # cmd.from
      /\ \A z \in UnderWay : IsRow(cmd) /\ IsRow(z) => z.arg # cmd.arg
  BY FreshIsNew
<1>2. /\ rows \in Nat /\ sets \in Nat /\ queue \in Seq(Commands) /\ waiting \in Seq(Commands)
      /\ cmd \in Commands
  BY DEF PlacesInv, TypeOK, Fresh
<1>3. \/ /\ Range(queue') = Range(queue) \cup {cmd}
         /\ IsInjective(queue) /\ cmd \notin Range(queue) => IsInjective(queue')
         /\ UNCHANGED <<spawned, waiting>>
      \/ /\ Range(waiting') = Range(waiting) \cup {cmd}
         /\ IsInjective(waiting) /\ cmd \notin Range(waiting) => IsInjective(waiting')
         /\ UNCHANGED <<spawned, queue>>
      \/ spawned' = spawned \cup {cmd} /\ UNCHANGED <<queue, waiting>>
  <2>1. /\ Range(Append(queue, cmd)) = Range(queue) \cup {cmd}
        /\ IsInjective(queue) /\ cmd \notin Range(queue) => IsInjective(Append(queue, cmd))
        /\ Range(Append(waiting, cmd)) = Range(waiting) \cup {cmd}
        /\ IsInjective(waiting) /\ cmd \notin Range(waiting) => IsInjective(Append(waiting, cmd))
    BY <1>2, Appended
  <2> QED  BY <2>1
<1>4. UnderWay' = UnderWay \cup {cmd}
  BY <1>3 DEF UnderWay
<1>5. Origins'
  <2>1. ASSUME NEW x \in UnderWay
        PROVE  /\ x.op = "set" => x.arg \in 1 .. sets'
               /\ IsRow(x) => x.arg \in 1 .. rows'
               /\ x.op \in {"ensure", "query", "insert"} <=> x.from # None
               /\ x.from # None => caller'[x.from] = "called"
    <3>1. x.from \in Callers \cup {None}
      BY <2>1, UnderWayIsCommands DEF Commands
    <3> QED  BY <1>1, <1>2, <3>1 DEF PlacesInv, Origins, Submitted
  <2>2. /\ cmd.op = "set" => cmd.arg \in 1 .. sets'
        /\ IsRow(cmd) => cmd.arg \in 1 .. rows'
        /\ cmd.op \in {"ensure", "query", "insert"} <=> cmd.from # None
        /\ cmd.from # None => caller'[cmd.from] = "called"
    BY <1>2 DEF Fresh, Submitted, Commands
  <2> QED  BY <1>4, <2>1, <2>2 DEF Origins, IsRow
<1>6. NoClash'
  <2>1. ASSUME NEW x \in UnderWay', NEW y \in UnderWay',
               \/ x.from # None /\ x.from = y.from
               \/ IsRow(x) /\ IsRow(y) /\ x.arg = y.arg
        PROVE  x = y
    <3>1. CASE x \in UnderWay /\ y \in UnderWay
      BY <2>1, <3>1 DEF PlacesInv, NoClash
    <3>2. CASE x = cmd /\ y \in UnderWay
      <4>1. (cmd.from # None => y.from # cmd.from) /\ (IsRow(cmd) /\ IsRow(y) => y.arg # cmd.arg)
        BY <1>1, <3>2
      <4> QED  BY <2>1, <3>2, <4>1
    <3>3. CASE x \in UnderWay /\ y = cmd
      <4>1. (cmd.from # None => x.from # cmd.from) /\ (IsRow(cmd) /\ IsRow(x) => x.arg # cmd.arg)
        BY <1>1, <3>3
      <4> QED  BY <2>1, <3>3, <4>1
    <3> QED  BY <1>4, <3>1, <3>2, <3>3
  <2> QED  BY <2>1 DEF NoClash, IsRow
<1>7. OnePlace'
  BY <1>1, <1>3 DEF PlacesInv, OnePlace, UnderWay
<1> QED  BY <1>4, <1>5, <1>6, <1>7

\* A command moves from a task or from its permit towards the queue.
LEMMA CommandMoves ==
  ASSUME PlacesInv, NEW cmd,
         UNCHANGED <<current, rows, sets, caller>>,
         \/ cmd \in spawned /\ spawned' = spawned \ {cmd} /\ queue' = Append(queue, cmd)
            /\ UNCHANGED <<waiting, granted>>
         \/ cmd \in spawned /\ spawned' = spawned \ {cmd} /\ waiting' = Append(waiting, cmd)
            /\ UNCHANGED <<queue, granted>>
         \/ cmd \in granted /\ granted' = granted \ {cmd} /\ queue' = Append(queue, cmd)
            /\ UNCHANGED <<waiting, spawned>>
  PROVE  UnderWay' = UnderWay /\ Origins' /\ NoClash' /\ OnePlace'
<1>1. queue \in Seq(Commands) /\ waiting \in Seq(Commands) /\ cmd \in Commands
  BY DEF PlacesInv, TypeOK
<1>2. /\ Range(Append(queue, cmd)) = Range(queue) \cup {cmd}
      /\ IsInjective(queue) /\ cmd \notin Range(queue) => IsInjective(Append(queue, cmd))
      /\ Range(Append(waiting, cmd)) = Range(waiting) \cup {cmd}
      /\ IsInjective(waiting) /\ cmd \notin Range(waiting) => IsInjective(Append(waiting, cmd))
  BY <1>1, Appended
<1>3. UnderWay' = UnderWay
  BY <1>2 DEF UnderWay
<1>4. Origins' /\ NoClash'
  BY <1>3 DEF PlacesInv, Origins, NoClash, IsRow
<1>5. OnePlace'
  BY <1>2 DEF PlacesInv, OnePlace
<1> QED  BY <1>3, <1>4, <1>5

\* The worker takes the head of the queue, and who waited first gets its place.
LEMMA HeadMoves ==
  ASSUME PlacesInv, Receive
  PROVE  UnderWay' = UnderWay \ {NoCommand} /\ Origins' /\ NoClash' /\ OnePlace'
<1>1. /\ queue \in Seq(Commands) /\ waiting \in Seq(Commands)
      /\ queue # <<>> /\ queue' = Tail(queue) /\ current' = Head(queue)
      /\ current = NoCommand /\ UNCHANGED <<spawned, rows, sets, caller>>
      /\ UNION {spawned, granted} \subseteq Commands
      /\ worker = "recv"
  BY DEF PlacesInv, TypeOK, Receive, historyVars, callerVars
<1>2. /\ Range(queue) = {current'} \cup Range(queue')
      /\ current' \notin Range(queue') /\ IsInjective(queue')
      /\ current' \in Commands /\ Range(queue') \subseteq Commands
  <2>1. queue' \in Seq(Commands) => Range(queue') \subseteq Commands
    BY LenProperties DEF Range
  <2> QED  BY <1>1, <2>1, HeadTaken DEF PlacesInv, OnePlace
<1>3. CASE waiting = <<>>
  <2>1. UNCHANGED <<waiting, granted>>
    BY <1>3 DEF Receive
  <2>2. Range(waiting) = {}
    BY <1>3 DEF Range
  <2>3. UnderWay' = UnderWay \ {NoCommand}
    BY <1>1, <1>2, <2>1, <2>2, NoCommandFields DEF UnderWay
  <2>4. OnePlace'
    BY <1>1, <1>2, <2>1, <2>2 DEF PlacesInv, OnePlace
  <2>5. Origins' /\ NoClash'
    BY <1>1, <2>3 DEF PlacesInv, Origins, NoClash, IsRow
  <2> QED  BY <2>3, <2>4, <2>5
<1>4. CASE waiting # <<>>
  <2>1. waiting' = Tail(waiting) /\ granted' = granted \cup {Head(waiting)}
    BY <1>4 DEF Receive
  <2>2. /\ Range(waiting) = {Head(waiting)} \cup Range(waiting') /\ Head(waiting) \in Commands
        /\ Head(waiting) \notin Range(waiting') /\ IsInjective(waiting')
        /\ Range(waiting') \subseteq Commands
    <3>1. waiting' \in Seq(Commands) => Range(waiting') \subseteq Commands
      BY LenProperties DEF Range
    <3> QED  BY <1>1, <1>4, <2>1, <3>1, HeadTaken DEF PlacesInv, OnePlace
  <2>3. UnderWay' = UnderWay \ {NoCommand}
    BY <1>1, <1>2, <2>1, <2>2, NoCommandFields DEF UnderWay
  <2>4. OnePlace'
    BY <1>1, <1>2, <2>1, <2>2 DEF PlacesInv, OnePlace
  <2>5. Origins' /\ NoClash'
    BY <1>1, <2>3 DEF PlacesInv, Origins, NoClash, IsRow
  <2> QED  BY <2>3, <2>4, <2>5
<1> QED  BY <1>3, <1>4

\* A command is done: nobody else's answer is touched.
LEMMA CommandDone ==
  ASSUME PlacesInv, NEW ok, Finish(ok)
  PROVE  /\ UnderWay' = (UnderWay \ {current}) \cup {NoCommand}
         /\ Origins' /\ NoClash' /\ OnePlace'
<1>1. /\ UNCHANGED <<queue, spawned, waiting, granted, rows, sets>> /\ current' = NoCommand
      /\ current \in Commands
      /\ \A c \in Callers : caller'[c] = IF c = current.from THEN "answered" ELSE caller[c]
  BY DEF PlacesInv, TypeOK, Finish, channelVars
<1>2. Range(queue) \cup spawned \cup Range(waiting) \cup granted \subseteq Commands
  BY DEF PlacesInv, TypeOK, Range
<1>3. UnderWay' = (UnderWay \ {current}) \cup {NoCommand}
  BY <1>1 DEF PlacesInv, OnePlace, UnderWay
<1>4. OnePlace'
  BY <1>1, <1>2, NoCommandFields DEF PlacesInv, OnePlace
<1>5. NoClash'
  BY <1>3, NoCommandFields DEF PlacesInv, NoClash, IsRow
<1>6. Origins'
  <2>1. ASSUME NEW x \in UnderWay \ {current}
        PROVE  x.from # None => caller'[x.from] = "called"
    <3>1. x.from \in Callers \cup {None} /\ x \in UnderWay /\ current \in UnderWay
      BY <1>2, <2>1 DEF UnderWay, Commands
    <3>2. x.from # None => x.from # current.from
      BY <2>1, <3>1 DEF PlacesInv, NoClash
    <3>3. x.from # None => caller[x.from] = "called"
      BY <2>1, <3>1 DEF PlacesInv, Origins
    <3> QED  BY <1>1, <3>1, <3>2, <3>3
  <2> QED  BY <1>1, <1>3, <2>1, NoCommandFields DEF PlacesInv, Origins, IsRow
<1> QED  BY <1>3, <1>4, <1>5, <1>6

-----------------------------------------------------------------------------
(* The kinds of steps. *)

\* A submission or a call: cmd is fresh and goes into the queue if there is room.
NewStep(cmd) ==
  /\ Fresh(cmd) /\ Submitted(cmd)
  /\ rows' <= MaxRows /\ sets' <= MaxSets
  /\ caller' = [c \in Callers |-> IF c = cmd.from THEN "called" ELSE caller[c]]
  /\ asked' = [c \in Callers |-> IF c = cmd.from THEN sets ELSE asked[c]]
  /\ \/ Room /\ queue' = Append(queue, cmd) /\ UNCHANGED <<spawned, waiting, delayed>>
     \/ /\ ~Room /\ cmd.op # "set"
        /\ delayed' = IF IsRow(cmd) THEN delayed \cup {cmd.arg} ELSE delayed
        /\ \/ waiting' = Append(waiting, cmd) /\ UNCHANGED <<queue, spawned>>
           \/ spawned' = spawned \cup {cmd} /\ UNCHANGED <<queue, waiting>>
  /\ UNCHANGED <<granted, worker, current, handles, read, failed, tried, tables, stored, value>>

\* The operations that submit, in these terms.
LEMMA SubmissionsAreNew ==
  ASSUME PlacesInv,
         \/ try_set_position \/ try_submit_insert_row \/ submit_insert_row_best_effort
         \/ \E c \in Callers : ensure_position_schema(c) \/ get_position(c) \/ insert_row(c)
  PROVE  \E cmd : NewStep(cmd)
<1>1. /\ rows \in 0 .. MaxRows /\ sets \in 0 .. MaxSets
      /\ caller \in [Callers -> {"idle", "called", "answered"}]
      /\ asked \in [Callers -> Sets \cup {0}]
  BY DEF PlacesInv, TypeOK
<1>2. caller = [c \in Callers |-> caller[c]] /\ asked = [c \in Callers |-> asked[c]]
  BY <1>1
<1>3. CASE try_set_position
  <2> DEFINE cmd == Command("set", sets + 1, None)
  <2>1. /\ cmd.op = "set" /\ cmd.arg = sets + 1 /\ cmd.from = None /\ sets < MaxSets
        /\ cmd \in Commands
    BY <1>1, <1>3, CommandFields DEF try_set_position, Ops
  <2>2. TrySend(cmd) /\ sets' = sets + 1 /\ UNCHANGED <<rows, delayed, failed, tried, RtElsewhere>>
    BY <1>3 DEF try_set_position
  <2> HIDE DEF cmd
  <2>3. NewStep(cmd)
    BY <1>1, <1>2, <2>1, <2>2 DEF TrySend, NewStep, Fresh, Submitted, IsRow, RtElsewhere, workerVars,
       callerVars, databaseVars
  <2> QED  BY <2>3
<1>4. CASE try_submit_insert_row \/ submit_insert_row_best_effort
  <2> DEFINE cmd == Command("row", rows + 1, None)
  <2>1. /\ cmd.op = "row" /\ cmd.arg = rows + 1 /\ cmd.from = None /\ rows < MaxRows
        /\ cmd \in Commands
    BY <1>1, <1>4, CommandFields DEF try_submit_insert_row, submit_insert_row_best_effort, Ops
  <2>2. /\ \/ TrySend(cmd) /\ UNCHANGED delayed
           \/ /\ ~Room
              /\ spawned' = spawned \cup {cmd} /\ delayed' = delayed \cup {rows + 1}
              /\ UNCHANGED <<queue, waiting, granted>>
        /\ rows' = rows + 1
        /\ UNCHANGED <<sets, failed, tried, RtElsewhere>>
    BY <1>4 DEF try_submit_insert_row, submit_insert_row_best_effort
  <2> HIDE DEF cmd
  <2>3. NewStep(cmd)
    BY <1>1, <1>2, <2>1, <2>2 DEF TrySend, NewStep, Fresh, Submitted, IsRow, RtElsewhere, workerVars,
       callerVars, databaseVars
  <2> QED  BY <2>3
<1>5. ASSUME NEW c \in Callers, NEW cmd \in Commands, Await(c, cmd), cmd.from = c,
             \/ cmd.op \in {"ensure", "query"} /\ UNCHANGED <<rows, delayed>>
             \/ /\ cmd.op = "insert" /\ cmd.arg = rows + 1 /\ rows < MaxRows /\ rows' = rows + 1
                /\ delayed' = IF Room THEN delayed ELSE delayed \cup {rows + 1}
      PROVE  NewStep(cmd)
  <2>1. /\ caller' = [d \in Callers |-> IF d = cmd.from THEN "called" ELSE caller[d]]
        /\ asked' = [d \in Callers |-> IF d = cmd.from THEN sets ELSE asked[d]]
        /\ caller[c] = "idle" /\ cmd.from # None
    BY <1>1, <1>5 DEF Await
  <2>2. Fresh(cmd) /\ Submitted(cmd)
    BY <1>1, <1>5, <2>1 DEF Await, Fresh, Submitted, IsRow
  <2>3. UNCHANGED <<granted, worker, current, handles, read, failed, tried, tables, stored, value,
                    spawned>>
    BY <1>5 DEF Await, Send, workerVars, databaseVars
  <2>4. rows' <= MaxRows /\ sets' <= MaxSets
    BY <1>1, <1>5 DEF Await
  <2>5. CASE Room
    BY <1>5, <2>1, <2>2, <2>3, <2>4, <2>5 DEF Await, Send, NewStep
  <2>6. CASE ~Room
    <3>1. waiting' = Append(waiting, cmd) /\ UNCHANGED queue
      BY <1>5, <2>6 DEF Await, Send
    <3>2. delayed' = (IF IsRow(cmd) THEN delayed \cup {cmd.arg} ELSE delayed) /\ cmd.op # "set"
      BY <1>5, <2>6 DEF IsRow
    <3> QED  BY <2>1, <2>2, <2>3, <2>4, <2>6, <3>1, <3>2 DEF NewStep
  <2> QED  BY <2>5, <2>6
<1>6. ASSUME NEW c \in Callers, ensure_position_schema(c) \/ get_position(c) \/ insert_row(c)
      PROVE  \E cmd : NewStep(cmd)
  <2>1. CASE ensure_position_schema(c)
    BY <1>5, <2>1, CommandFields DEF ensure_position_schema, Ops
  <2>2. CASE get_position(c)
    BY <1>5, <2>2, CommandFields DEF get_position, Ops
  <2>3. CASE insert_row(c)
    <3>1. rows + 1 \in 0 .. (MaxRows + MaxSets)
      BY <1>1, <2>3 DEF insert_row
    <3> QED  BY <1>5, <2>3, <3>1, CommandFields DEF insert_row, Ops
  <2> QED  BY <1>6, <2>1, <2>2, <2>3
<1> QED  BY <1>3, <1>4, <1>6

\* The queue after cmd was put into it.
Queued(cmd) ==
  /\ DOMAIN queue = 1 .. Len(queue) /\ DOMAIN queue' = 1 .. Len(queue) + 1 /\ Len(queue) \in Nat
  /\ \A i \in 1 .. Len(queue) : queue'[i] = queue[i]
  /\ queue'[Len(queue) + 1] = cmd

\* A query is asked by a caller, who has the number of upserts accepted before.
LEMMA QueriesOfCallers ==
  ASSUME PlacesInv
  PROVE  /\ \A i \in DOMAIN queue : queue[i].op = "query" =>
              queue[i].from \in Callers /\ asked[queue[i].from] \in Nat
         /\ current.op = "query" => current.from \in Callers /\ asked[current.from] \in Nat
<1>1. ASSUME NEW x \in UnderWay, x.op = "query"
      PROVE  x.from \in Callers /\ asked[x.from] \in Nat
  <2>1. x.from \in Callers
    BY <1>1, UnderWayIsCommands DEF PlacesInv, Origins, Commands
  <2> QED  BY <2>1 DEF PlacesInv, TypeOK, Sets
<1> QED  BY <1>1 DEF UnderWay, Range

\* A submission keeps every command in its one place.
LEMMA NewPlaces ==
  ASSUME PlacesInv, NEW cmd, NewStep(cmd)
  PROVE  PlacesInv' /\ UnderWay' = UnderWay \cup {cmd}
<1>1. /\ cmd \in Commands /\ Fresh(cmd) /\ Submitted(cmd) /\ ChannelOK
      /\ UNCHANGED <<granted, current>>
      /\ \/ Room /\ queue' = Append(queue, cmd) /\ UNCHANGED <<spawned, waiting>>
         \/ ~Room /\ waiting' = Append(waiting, cmd) /\ UNCHANGED <<queue, spawned>>
         \/ spawned' = spawned \cup {cmd} /\ UNCHANGED <<queue, waiting>>
  BY DEF NewStep, Fresh, PlacesInv, TypeOK, ChannelOK
<1>2. UnderWay' = UnderWay \cup {cmd} /\ Origins' /\ NoClash' /\ OnePlace'
  BY <1>1, NewCommandPlaced
<1>3. ChannelOK'
  <2>1. CASE Room /\ queue' = Append(queue, cmd) /\ UNCHANGED <<spawned, waiting>>
    BY <1>1, <2>1, QueuedHasRoom DEF ChannelOK
  <2>2. CASE ~Room /\ waiting' = Append(waiting, cmd) /\ UNCHANGED <<queue, spawned>>
    BY <1>1, <2>2, WaitsForRoom DEF ChannelOK
  <2>3. CASE spawned' = spawned \cup {cmd} /\ UNCHANGED <<queue, waiting>>
    BY <1>1, <2>3 DEF ChannelOK
  <2> QED  BY <1>1, <2>1, <2>2, <2>3
<1>4. rows' \in 0 .. MaxRows /\ sets' \in 0 .. MaxSets
  BY DEF PlacesInv, TypeOK, NewStep, Submitted
<1>5. delayed' \subseteq Rows
  <2>1. IsRow(cmd) => cmd.arg \in Rows
    BY <1>1, <1>4 DEF PlacesInv, TypeOK, Fresh, Submitted, Rows
  <2> QED  BY <2>1 DEF PlacesInv, TypeOK, NewStep
<1>6. /\ caller' \in [Callers -> {"idle", "called", "answered"}]
      /\ asked' \in [Callers -> Sets \cup {0}]
  <2>1. sets \in Sets \cup {0}
    BY DEF PlacesInv, TypeOK, Sets
  <2> QED  BY <2>1 DEF PlacesInv, TypeOK, NewStep
<1>7. /\ UNCHANGED <<worker, current, handles, read, failed, tried, tables, stored, value>>
  BY DEF NewStep
<1>8. TypeOK'
  BY <1>3, <1>4, <1>5, <1>6, <1>7 DEF PlacesInv, TypeOK, ChannelOK
<1> QED  BY <1>2, <1>3, <1>8 DEF PlacesInv, ChannelOK

\* A fresh row is the latest; it is under way and cannot have been tried.
LEMMA NewRows ==
  ASSUME QueueInv, NEW cmd, NewStep(cmd)
  PROVE  RowsAccountedFor' /\ WhoWaits' /\ RowsInOrder'
<1> USE DEF IsRow
<1>1. /\ UnderWay' = UnderWay \cup {cmd} /\ rows \in Nat /\ queue \in Seq(Commands)
      /\ waiting \in Seq(Commands) /\ cmd \in Commands
      /\ UNCHANGED <<granted, current, tried, stored>>
  BY NewPlaces DEF QueueInv, NewStep, Fresh, PlacesInv, TypeOK
<1>2. /\ IsRow(cmd) => cmd.arg = rows + 1 /\ rows' = rows + 1
      /\ ~IsRow(cmd) => rows' = rows
      /\ delayed \subseteq delayed'
  BY DEF NewStep, Fresh, Submitted
<1>3. RowsAccountedFor'
  <2>1. CASE IsRow(cmd)
    <3>1. RowsIn(UnderWay') = RowsIn(UnderWay) \cup {rows + 1}
      BY <1>1, <1>2, <2>1 DEF RowsIn
    <3>2. 1 .. rows' = 1 .. rows \cup {rows + 1} /\ rows + 1 \notin 1 .. rows
      BY <1>1, <1>2, <2>1
    <3> QED  BY <1>1, <3>1, <3>2 DEF QueueInv, RowsAccountedFor, RowsIn
  <2>2. CASE ~IsRow(cmd)
    <3>1. RowsIn(UnderWay') = RowsIn(UnderWay)
      BY <1>1, <2>2 DEF RowsIn
    <3> QED  BY <1>1, <1>2, <2>2, <3>1 DEF QueueInv, RowsAccountedFor, RowsIn
  <2> QED  BY <2>1, <2>2
<1>4. WhoWaits'
  <2>1. Range(Append(waiting, cmd)) = Range(waiting) \cup {cmd}
    BY <1>1, Appended
  <2>2. \/ spawned' \cup Range(waiting') \cup granted' = spawned \cup Range(waiting) \cup granted
        \/ /\ spawned' \cup Range(waiting') \cup granted'
                = spawned \cup Range(waiting) \cup granted \cup {cmd}
           /\ cmd.op # "set" /\ (IsRow(cmd) => cmd.arg \in delayed')
    BY <2>1 DEF NewStep
  <2> QED  BY <1>2, <2>2 DEF QueueInv, WhoWaits
<1>5. RowsInOrder'
  <2>1. queue' = queue \/ Queued(cmd)
    BY <1>1, Appended DEF NewStep, Queued
  <2>2. \A x \in UnderWay : IsRow(x) => x.arg \in 1 .. rows
    BY DEF QueueInv, PlacesInv, Origins
  <2>3. /\ \A i \in DOMAIN queue : IsRow(queue[i]) => queue[i].arg \in 1 .. rows
        /\ IsRow(current) => current.arg \in 1 .. rows
    BY <2>2 DEF UnderWay, Range
  <2>4. \A i \in DOMAIN stored : stored[i] \in 1 .. rows
    BY DEF QueueInv, RowsAccountedFor, Range
  <2>5. OnlyDelayedOvertaken'
    BY <1>1, <1>2 DEF QueueInv, RowsInOrder, OnlyDelayedOvertaken
  <2>6. CASE queue' = queue
    BY <1>1, <1>2, <2>5, <2>6 DEF QueueInv, RowsInOrder, MayFollow
  <2>7. CASE Queued(cmd)
    <3> DEFINE n == Len(queue)
    <3>1. /\ DOMAIN queue = 1 .. n /\ DOMAIN queue' = 1 .. n + 1 /\ n \in Nat
          /\ \A i \in 1 .. n : queue'[i] = queue[i]
          /\ queue'[n + 1] = cmd
      BY <2>7 DEF Queued
    <3> HIDE DEF n
    <3>2. ASSUME NEW i \in DOMAIN queue', NEW j \in DOMAIN queue', i < j,
                 IsRow(queue'[i]), IsRow(queue'[j])
          PROVE  queue'[j].arg < queue'[i].arg => queue'[j].arg \in delayed'
      <4>1. i \in 1 .. n /\ queue'[i] = queue[i]
        BY <3>1, <3>2
      <4>2. CASE j = n + 1
        BY <1>1, <1>2, <2>3, <3>1, <3>2, <4>1, <4>2 DEF MayFollow
      <4>3. CASE j # n + 1
        <5>1. j \in 1 .. n /\ queue'[j] = queue[j]
          BY <3>1, <4>3
        <5> QED  BY <1>2, <3>1, <3>2, <4>1, <5>1 DEF QueueInv, RowsInOrder, MayFollow
      <4> QED  BY <4>2, <4>3
    <3>3. ASSUME NEW j \in DOMAIN queue', IsRow(queue'[j])
          PROVE  /\ IsRow(current) => (queue'[j].arg < current.arg => queue'[j].arg \in delayed')
                 /\ \A i \in DOMAIN stored : queue'[j].arg < stored[i] => queue'[j].arg \in delayed'
      <4>1. CASE j = n + 1
        BY <1>1, <1>2, <2>3, <2>4, <3>1, <3>3, <4>1 DEF MayFollow
      <4>2. CASE j # n + 1
        <5>1. j \in 1 .. n /\ queue'[j] = queue[j]
          BY <3>1, <4>2
        <5> QED  BY <1>1, <1>2, <3>1, <3>3, <5>1 DEF QueueInv, RowsInOrder, MayFollow
      <4> QED  BY <4>1, <4>2
    <3>4. IsRow(current) => \A i \in DOMAIN stored : current.arg < stored[i] => current.arg \in delayed'
      BY <1>1, <1>2 DEF QueueInv, RowsInOrder, MayFollow
    <3> QED  BY <1>1, <2>5, <3>2, <3>3, <3>4 DEF RowsInOrder, MayFollow
  <2> QED  BY <2>1, <2>6, <2>7
<1> QED  BY <1>3, <1>4, <1>5

\* A fresh upsert is the latest; a fresh query has nothing behind it.
LEMMA NewSets ==
  ASSUME QueueInv, NEW cmd, NewStep(cmd)
  PROVE  SetsInOrder' /\ QueriesInOrder'
<1>1. /\ sets \in Nat /\ queue \in Seq(Commands) /\ cmd \in Commands
      /\ UNCHANGED <<current, read, failed, value>> /\ value \in Nat
      /\ cmd.op = "set" => cmd.arg = sets + 1 /\ sets' = sets + 1
      /\ cmd.op # "set" => sets' = sets
      /\ asked \in [Callers -> Nat] /\ read \in [Callers -> Nat \cup {None}]
  <2>1. sets \in Nat /\ queue \in Seq(Commands) /\ value \in Nat
    BY DEF QueueInv, PlacesInv, TypeOK, Sets
  <2>2. asked \in [Callers -> Nat] /\ read \in [Callers -> Nat \cup {None}]
    BY DEF QueueInv, PlacesInv, TypeOK, Sets
  <2> QED  BY <2>1, <2>2 DEF NewStep, Fresh, Submitted
<1>0. queue' = Append(queue, cmd) => Queued(cmd)
  BY <1>1, Appended DEF Queued
<1>2. queue' = queue \/ Queued(cmd)
  BY <1>0 DEF NewStep
<1>3. cmd.op = "set" => Queued(cmd)
  BY <1>0 DEF NewStep
<1>4. \A x \in UnderWay : x.op = "set" => x.arg \in 1 .. sets
  BY DEF QueueInv, PlacesInv, Origins
<1>5. /\ \A i \in DOMAIN queue : queue[i].op = "set" => queue[i].arg \in 1 .. sets
      /\ current.op = "set" => current.arg \in 1 .. sets
  BY <1>4 DEF UnderWay, Range
<1>6. SetsInOrder'
  <2>1. CASE queue' = queue /\ sets' = sets
    BY <1>1, <2>1 DEF QueueInv, SetsInOrder
  <2>2. CASE Queued(cmd)
    <3> DEFINE n == Len(queue)
    <3>1. /\ DOMAIN queue = 1 .. n /\ DOMAIN queue' = 1 .. n + 1 /\ n \in Nat
          /\ \A i \in 1 .. n : queue'[i] = queue[i]
          /\ queue'[n + 1] = cmd
      BY <2>2 DEF Queued
    <3> HIDE DEF n
    <3>2. ASSUME NEW i \in DOMAIN queue', NEW j \in DOMAIN queue', i < j,
                 queue'[i].op = "set", queue'[j].op = "set"
          PROVE  queue'[i].arg < queue'[j].arg
      <4>1. i \in 1 .. n /\ queue'[i] = queue[i]
        BY <3>1, <3>2
      <4>2. CASE j = n + 1
        BY <1>1, <1>5, <3>1, <3>2, <4>1, <4>2
      <4>3. CASE j # n + 1
        <5>1. j \in 1 .. n /\ queue'[j] = queue[j]
          BY <3>1, <4>3
        <5> QED  BY <3>1, <3>2, <4>1, <5>1 DEF QueueInv, SetsInOrder
      <4> QED  BY <4>2, <4>3
    <3>3. ASSUME NEW j \in DOMAIN queue', queue'[j].op = "set"
          PROVE  value < queue'[j].arg /\ (current.op = "set" => current.arg < queue'[j].arg)
      <4>1. CASE j = n + 1
        BY <1>1, <1>5, <3>1, <3>3, <4>1 DEF QueueInv, SetsInOrder
      <4>2. CASE j # n + 1
        <5>1. j \in 1 .. n /\ queue'[j] = queue[j]
          BY <3>1, <4>2
        <5> QED  BY <3>1, <3>3, <5>1 DEF QueueInv, SetsInOrder
      <4> QED  BY <4>1, <4>2
    <3>4. ASSUME NEW m \in 1 .. sets'
          PROVE  \/ m <= value \/ m \in failed
                 \/ current.op = "set" /\ current.arg = m
                 \/ \E i \in DOMAIN queue' : queue'[i].op = "set" /\ queue'[i].arg = m
      <4>1. CASE m \in 1 .. sets
        BY <3>1, <4>1 DEF QueueInv, SetsInOrder
      <4>2. CASE m \notin 1 .. sets
        BY <1>1, <3>1, <4>2
      <4> QED  BY <4>1, <4>2
    <3>5. (current.op = "set" => value < current.arg) /\ value <= sets'
      BY <1>1 DEF QueueInv, SetsInOrder
    <3> QED  BY <1>1, <3>2, <3>3, <3>4, <3>5 DEF SetsInOrder
  <2> QED  BY <1>1, <1>2, <1>3, <2>1, <2>2
<1>7. /\ asked' = [c \in Callers |-> IF c = cmd.from THEN sets ELSE asked[c]]
      /\ caller' = [c \in Callers |-> IF c = cmd.from THEN "called" ELSE caller[c]]
      /\ \A c \in Callers : c = cmd.from => caller[c] = "idle" /\ read[c] = None
  BY <1>1 DEF NewStep, Fresh, QueueInv, QueriesInOrder
<1>8. /\ \A i \in DOMAIN queue : queue[i].op = "query" =>
           asked'[queue[i].from] = asked[queue[i].from] /\ asked[queue[i].from] <= sets
      /\ current.op = "query" =>
           asked'[current.from] = asked[current.from] /\ asked[current.from] <= sets
  <2>1. ASSUME NEW x \in UnderWay, x.op = "query"
        PROVE  asked'[x.from] = asked[x.from] /\ asked[x.from] <= sets
    <3>1. x.from \in Callers
      BY <2>1, UnderWayIsCommands DEF QueueInv, PlacesInv, Origins, Commands
    <3>2. x.from # cmd.from
      BY <2>1, <3>1, FreshIsNew DEF QueueInv, NewStep
    <3> QED  BY <1>7, <3>1, <3>2 DEF QueueInv, QueriesInOrder
  <2> QED  BY <2>1 DEF UnderWay, Range
<1>9. ReadsOwnWrites'
  BY <1>1, <1>7 DEF QueueInv, QueriesInOrder, ReadsOwnWrites
<1>10. \A c \in Callers : asked'[c] <= sets' /\ (caller'[c] # "answered" => read'[c] = None)
  BY <1>1, <1>7 DEF QueueInv, QueriesInOrder
<1>11. \A j \in DOMAIN queue' : queue'[j].op = "set" =>
         /\ \A i \in 1 .. j - 1 : queue'[i].op = "query" => asked'[queue'[i].from] < queue'[j].arg
         /\ current.op = "query" => asked'[current.from] < queue'[j].arg
  <2>1. CASE queue' = queue
    BY <1>1, <1>8, <2>1 DEF QueueInv, QueriesInOrder
  <2>2. CASE Queued(cmd)
    <3> DEFINE n == Len(queue)
    <3>1. /\ DOMAIN queue = 1 .. n /\ DOMAIN queue' = 1 .. n + 1 /\ n \in Nat
          /\ \A i \in 1 .. n : queue'[i] = queue[i]
          /\ queue'[n + 1] = cmd
      BY <2>2 DEF Queued
    <3> HIDE DEF n
    <3> SUFFICES ASSUME NEW j \in DOMAIN queue', queue'[j].op = "set"
                 PROVE  /\ \A i \in 1 .. j - 1 : queue'[i].op = "query" =>
                             asked'[queue'[i].from] < queue'[j].arg
                        /\ current.op = "query" => asked'[current.from] < queue'[j].arg
      OBVIOUS
    <3>2. \A i \in 1 .. j - 1 : i \in 1 .. n /\ queue'[i] = queue[i]
      BY <3>1
    <3>3. CASE j = n + 1
      <4>1. \A i \in 1 .. n : queue[i].op = "query" => asked'[queue[i].from] <= sets
        BY <1>8, <3>1
      <4>2. \A c \in Callers : asked[c] \in Nat
        BY <1>1
      <4> QED  BY <1>1, <1>8, <3>1, <3>2, <3>3, <4>1, QueriesOfCallers DEF QueueInv
    <3>4. CASE j # n + 1
      <4>1. j \in 1 .. n /\ queue'[j] = queue[j]
        BY <3>1, <3>4
      <4> QED  BY <1>8, <3>1, <3>2, <4>1 DEF QueueInv, QueriesInOrder
    <3> QED  BY <3>3, <3>4
  <2> QED  BY <1>2, <2>1, <2>2
<1> QED  BY <1>1, <1>6, <1>9, <1>10, <1>11 DEF QueriesInOrder

\* A command of a spawned task, or of one that got its permit, moves on.
MoveStep(cmd) ==
  /\ \/ cmd \in spawned /\ spawned' = spawned \ {cmd} /\ queue' = Append(queue, cmd)
        /\ Room /\ UNCHANGED <<waiting, granted>>
     \/ cmd \in spawned /\ spawned' = spawned \ {cmd} /\ waiting' = Append(waiting, cmd)
        /\ ~Room /\ UNCHANGED <<queue, granted>>
     \/ cmd \in granted /\ granted' = granted \ {cmd} /\ queue' = Append(queue, cmd)
        /\ UNCHANGED <<waiting, spawned>>
  /\ UNCHANGED <<workerVars, handles, callerVars, historyVars, databaseVars>>

\* The polls of these tasks, in these terms.
LEMMA PollsAreMoves ==
  ASSUME SpawnedSend \/ Granted
  PROVE  \E cmd : MoveStep(cmd)
<1>1. ASSUME NEW cmd \in spawned, spawned' = spawned \ {cmd}, Send(cmd),
             UNCHANGED <<historyVars, RtElsewhere>>
      PROVE  MoveStep(cmd)
  <2>1. CASE Room
    BY <1>1, <2>1 DEF Send, MoveStep, RtElsewhere
  <2>2. CASE ~Room
    BY <1>1, <2>2 DEF Send, MoveStep, RtElsewhere
  <2> QED  BY <2>1, <2>2
<1>2. CASE SpawnedSend
  BY <1>1, <1>2 DEF SpawnedSend
<1>3. CASE Granted
  BY <1>3 DEF Granted, MoveStep
<1> QED  BY <1>2, <1>3

\* A command that moves on is still in one place.
LEMMA MovePlaces ==
  ASSUME PlacesInv, NEW cmd, MoveStep(cmd)
  PROVE  PlacesInv' /\ UnderWay' = UnderWay
<1>1. ChannelOK /\ cmd \in Commands
  BY DEF PlacesInv, TypeOK, ChannelOK, MoveStep
<1>2. UNCHANGED <<worker, current, handles, caller, read, asked, rows, delayed, sets, failed, tried,
                  tables, stored, value>>
  BY DEF MoveStep, workerVars, callerVars, historyVars, databaseVars
<1>3. UnderWay' = UnderWay /\ Origins' /\ NoClash' /\ OnePlace'
  BY <1>2, CommandMoves DEF MoveStep
<1>4. ChannelOK'
  <2>1. CASE spawned' = spawned \ {cmd} /\ queue' = Append(queue, cmd)
             /\ Room /\ UNCHANGED <<waiting, granted>>
    BY <1>1, <2>1, QueuedHasRoom DEF ChannelOK
  <2>2. CASE spawned' = spawned \ {cmd} /\ waiting' = Append(waiting, cmd)
             /\ ~Room /\ UNCHANGED <<queue, granted>>
    BY <1>1, <2>2, WaitsForRoom DEF ChannelOK
  <2>3. CASE cmd \in granted /\ granted' = granted \ {cmd} /\ queue' = Append(queue, cmd)
             /\ UNCHANGED <<waiting, spawned>>
    BY <1>1, <2>3, GrantedHasRoom
  <2> QED  BY <2>1, <2>2, <2>3 DEF MoveStep
<1>5. TypeOK'
  BY <1>2, <1>4 DEF PlacesInv, TypeOK, ChannelOK
<1> QED  BY <1>3, <1>4, <1>5 DEF PlacesInv, ChannelOK

\* A row that enters the queue late is one that found it full.
LEMMA MoveRows ==
  ASSUME QueueInv, NEW cmd, MoveStep(cmd)
  PROVE  RowsAccountedFor' /\ WhoWaits' /\ RowsInOrder'
<1> USE DEF IsRow
<1>1. /\ UnderWay' = UnderWay /\ queue \in Seq(Commands) /\ waiting \in Seq(Commands)
      /\ cmd \in Commands /\ UNCHANGED <<current, rows, delayed, tried, stored>>
  BY MovePlaces DEF QueueInv, PlacesInv, TypeOK, MoveStep, workerVars, historyVars, databaseVars
<1>2. RowsAccountedFor'
  BY <1>1 DEF QueueInv, RowsAccountedFor, RowsIn
<1>3. cmd.op # "set" /\ (IsRow(cmd) => cmd.arg \in delayed)
  BY DEF QueueInv, WhoWaits, MoveStep
<1>4. WhoWaits'
  <2>1. Range(Append(waiting, cmd)) = Range(waiting) \cup {cmd}
    BY <1>1, Appended
  <2>2. spawned' \cup Range(waiting') \cup granted'
          \subseteq spawned \cup Range(waiting) \cup granted
    BY <2>1 DEF MoveStep
  <2> QED  BY <1>1, <2>2 DEF QueueInv, WhoWaits
<1>5. RowsInOrder'
  <2>0. queue' = Append(queue, cmd) => Queued(cmd)
    BY <1>1, Appended DEF Queued
  <2>1. queue' = queue \/ Queued(cmd)
    BY <2>0 DEF MoveStep
  <2>2. OnlyDelayedOvertaken'
    BY <1>1 DEF QueueInv, RowsInOrder, OnlyDelayedOvertaken
  <2>3. CASE queue' = queue
    BY <1>1, <2>2, <2>3 DEF QueueInv, RowsInOrder, MayFollow
  <2>4. CASE Queued(cmd)
    <3> DEFINE n == Len(queue)
    <3>1. /\ DOMAIN queue = 1 .. n /\ DOMAIN queue' = 1 .. n + 1 /\ n \in Nat
          /\ \A i \in 1 .. n : queue'[i] = queue[i]
          /\ queue'[n + 1] = cmd
      BY <2>4 DEF Queued
    <3> HIDE DEF n
    <3>2. ASSUME NEW i \in DOMAIN queue', NEW j \in DOMAIN queue', i < j,
                 IsRow(queue'[i]), IsRow(queue'[j])
          PROVE  queue'[j].arg < queue'[i].arg => queue'[j].arg \in delayed
      <4>1. i \in 1 .. n /\ queue'[i] = queue[i]
        BY <3>1, <3>2
      <4>2. CASE j = n + 1
        BY <1>3, <3>1, <3>2, <4>2
      <4>3. CASE j # n + 1
        <5>1. j \in 1 .. n /\ queue'[j] = queue[j]
          BY <3>1, <4>3
        <5> QED  BY <3>1, <3>2, <4>1, <5>1 DEF QueueInv, RowsInOrder, MayFollow
      <4> QED  BY <4>2, <4>3
    <3>3. ASSUME NEW j \in DOMAIN queue', IsRow(queue'[j])
          PROVE  /\ IsRow(current) => (queue'[j].arg < current.arg => queue'[j].arg \in delayed)
                 /\ \A i \in DOMAIN stored : queue'[j].arg < stored[i] => queue'[j].arg \in delayed
      <4>1. CASE j = n + 1
        BY <1>3, <3>1, <3>3, <4>1
      <4>2. CASE j # n + 1
        <5>1. j \in 1 .. n /\ queue'[j] = queue[j]
          BY <3>1, <4>2
        <5> QED  BY <3>1, <3>3, <5>1 DEF QueueInv, RowsInOrder, MayFollow
      <4> QED  BY <4>1, <4>2
    <3>4. IsRow(current) => \A i \in DOMAIN stored : MayFollow(stored[i], current.arg)
      BY DEF QueueInv, RowsInOrder
    <3> QED  BY <1>1, <2>2, <3>2, <3>3, <3>4 DEF RowsInOrder, MayFollow
  <2> QED  BY <2>1, <2>3, <2>4
<1> QED  BY <1>2, <1>4, <1>5

\* No upsert moves, and a query that enters the queue has nothing behind it.
LEMMA MoveSets ==
  ASSUME QueueInv, NEW cmd, MoveStep(cmd)
  PROVE  SetsInOrder' /\ QueriesInOrder'
<1>1. /\ queue \in Seq(Commands) /\ cmd \in Commands /\ cmd.op # "set"
      /\ UNCHANGED <<current, caller, read, asked, sets, failed, value>>
  BY DEF QueueInv, PlacesInv, TypeOK, WhoWaits, MoveStep, workerVars, callerVars, historyVars,
         databaseVars
<1>2. queue' = Append(queue, cmd) => Queued(cmd)
  BY <1>1, Appended DEF Queued
<1>3. queue' = queue \/ Queued(cmd)
  BY <1>2 DEF MoveStep
<1>4. ReadsOwnWrites'
  BY <1>1 DEF QueueInv, QueriesInOrder, ReadsOwnWrites
<1>5. CASE queue' = queue
  BY <1>1, <1>4, <1>5 DEF QueueInv, SetsInOrder, QueriesInOrder
<1>6. CASE Queued(cmd)
  <2> DEFINE n == Len(queue)
  <2>1. /\ DOMAIN queue = 1 .. n /\ DOMAIN queue' = 1 .. n + 1 /\ n \in Nat
        /\ \A i \in 1 .. n : queue'[i] = queue[i]
        /\ queue'[n + 1] = cmd
    BY <1>6 DEF Queued
  <2> HIDE DEF n
  <2>2. ASSUME NEW j \in DOMAIN queue', queue'[j].op = "set"
        PROVE  /\ j \in DOMAIN queue /\ queue'[j] = queue[j]
               /\ \A i \in 1 .. j - 1 : i \in DOMAIN queue /\ queue'[i] = queue[i]
    BY <1>1, <2>1, <2>2
  <2>3. ASSUME NEW m \in 1 .. sets, \E i \in DOMAIN queue : queue[i].op = "set" /\ queue[i].arg = m
        PROVE  \E i \in DOMAIN queue' : queue'[i].op = "set" /\ queue'[i].arg = m
    BY <2>1, <2>3
  <2>4. SetsInOrder'
    BY <1>1, <2>2, <2>3 DEF QueueInv, SetsInOrder
  <2>5. QueriesInOrder'
    BY <1>1, <1>4, <2>2 DEF QueueInv, QueriesInOrder
  <2> QED  BY <2>4, <2>5
<1> QED  BY <1>3, <1>5, <1>6

\* The worker takes the head of the queue.
LEMMA ReceivePlaces ==
  ASSUME PlacesInv, Receive
  PROVE  PlacesInv'
<1>1. ChannelOK /\ OnePlace
  BY DEF PlacesInv, TypeOK, ChannelOK
<1>2. ChannelOK'
  BY <1>1, ReceiveGrants
<1>3. Origins' /\ NoClash' /\ OnePlace'
  BY HeadMoves
<1>4. current' \in Commands /\ current' # NoCommand /\ worker' = "busy"
  BY <1>1, HeadTaken, NoCommandFields DEF ChannelOK, Receive
<1>5. UNCHANGED <<handles, caller, read, asked, rows, delayed, sets, failed, tried,
                  tables, stored, value>>
  BY DEF Receive, callerVars, historyVars, databaseVars
<1>6. TypeOK'
  BY <1>2, <1>4, <1>5 DEF PlacesInv, TypeOK, ChannelOK
<1> QED  BY <1>2, <1>3, <1>6 DEF PlacesInv, ChannelOK

\* The order of what is in the queue becomes the order of what is executed.
LEMMA ReceiveKeeps ==
  ASSUME QueueInv, Receive
  PROVE  QueueInv'
<1> USE DEF IsRow
<1>0. PlacesInv'
  BY ReceivePlaces DEF QueueInv
<1>1. /\ queue \in Seq(Commands) /\ waiting \in Seq(Commands) /\ queue # <<>>
      /\ queue' = Tail(queue) /\ current' = Head(queue) /\ current = NoCommand
      /\ UNCHANGED <<spawned, caller, read, asked, rows, delayed, sets, failed, tried, stored, value>>
  BY DEF QueueInv, PlacesInv, TypeOK, Receive, callerVars, historyVars, databaseVars
<1> DEFINE n == Len(queue)
<1>2. /\ n \in Nat \ {0} /\ DOMAIN queue = 1 .. n /\ DOMAIN queue' = 1 .. n - 1
      /\ \A i \in 1 .. n - 1 : queue'[i] = queue[i + 1]
      /\ current' = queue[1]
  BY <1>1, HeadTaken
<1> HIDE DEF n
<1>3. /\ \A i \in DOMAIN queue' : i + 1 \in DOMAIN queue /\ queue'[i] = queue[i + 1]
      /\ 1 \in DOMAIN queue /\ \A i \in DOMAIN queue' : 1 < i + 1
      /\ \A i, j \in DOMAIN queue' : i < j => i + 1 < j + 1
      /\ \A i \in DOMAIN queue : i = 1 \/ (i - 1 \in DOMAIN queue' /\ queue'[i - 1] = queue[i])
  BY <1>2
<1>4. RowsAccountedFor'
  <2>1. RowsIn(UnderWay') = RowsIn(UnderWay)
    BY HeadMoves, NoCommandFields DEF QueueInv, RowsIn
  <2> QED  BY <1>1, <2>1 DEF QueueInv, RowsAccountedFor
<1>5. WhoWaits'
  <2>1. spawned' \cup Range(waiting') \cup granted' = spawned \cup Range(waiting) \cup granted
    <3>1. CASE waiting = <<>>
      BY <1>1, <3>1 DEF Receive
    <3>2. CASE waiting # <<>>
      <4>1. Range(waiting) = {Head(waiting)} \cup Range(Tail(waiting))
        BY <1>1, <3>2, HeadTaken
      <4> QED  BY <1>1, <3>2, <4>1 DEF Receive
    <3> QED  BY <3>1, <3>2
  <2> QED  BY <1>1, <2>1 DEF QueueInv, WhoWaits
<1>6. RowsInOrder'
  BY <1>1, <1>2, <1>3 DEF QueueInv, RowsInOrder, OnlyDelayedOvertaken, MayFollow
<1>7. SetsInOrder'
  <2>1. ASSUME NEW m \in 1 .. sets, \E i \in DOMAIN queue : queue[i].op = "set" /\ queue[i].arg = m
        PROVE  \/ current'.op = "set" /\ current'.arg = m
               \/ \E i \in DOMAIN queue' : queue'[i].op = "set" /\ queue'[i].arg = m
    BY <1>2, <1>3, <2>1
  <2>2. \A m \in 1 .. sets :
           \/ m <= value \/ m \in failed
           \/ \E i \in DOMAIN queue : queue[i].op = "set" /\ queue[i].arg = m
    BY <1>1, NoCommandFields DEF QueueInv, SetsInOrder
  <2> QED  BY <1>1, <1>2, <1>3, <2>1, <2>2 DEF QueueInv, SetsInOrder
<1>8. QueriesInOrder'
  <2>1. ReadsOwnWrites'
    BY <1>1 DEF QueueInv, QueriesInOrder, ReadsOwnWrites
  <2>2. ASSUME NEW j \in DOMAIN queue', queue'[j].op = "set"
        PROVE  /\ \A i \in 1 .. j - 1 : queue'[i].op = "query" => asked[queue'[i].from] < queue'[j].arg
               /\ current'.op = "query" => asked[current'.from] < queue'[j].arg
    <3>1. /\ \A i \in 1 .. j - 1 : queue'[i] = queue[i + 1] /\ i + 1 \in 1 .. (j + 1) - 1
          /\ 1 \in 1 .. (j + 1) - 1 /\ current' = queue[1]
      BY <1>2
    <3> QED  BY <1>3, <2>2, <3>1 DEF QueueInv, QueriesInOrder
  <2> QED  BY <1>1, <2>1, <2>2 DEF QueueInv, QueriesInOrder
<1> QED  BY <1>0, <1>4, <1>5, <1>6, <1>7, <1>8 DEF QueueInv

\* The command is executed: what each kind of SQL may have done.
DoneStep(ok) ==
  /\ Finish(ok)
  /\ \/ /\ current.op = "set"
        /\ \/ value' = current.arg /\ failed' \in {failed, failed \cup {current.arg}}
           \/ value' = value /\ failed' = failed \cup {current.arg}
        /\ UNCHANGED <<tried, tables, stored>>
     \/ /\ IsRow(current)
        /\ stored' = stored \/ stored' = Append(stored, current.arg)
        /\ tried' = tried \cup {current.arg}
        /\ UNCHANGED <<failed, tables, value>>
     \/ /\ current.op \in {"query", "ensure"}
        /\ tables' \in BOOLEAN
        /\ UNCHANGED <<tried, failed, stored, value>>

\* The arms of the worker, in these terms.
LEMMA ExecutionsAreDone ==
  ASSUME PlacesInv, ExecuteNoAck \/ InsertRowNoAck \/ InsertRow \/ Query \/ CreateTable
  PROVE  \E ok \in BOOLEAN : DoneStep(ok)
<1>0. tables \in BOOLEAN /\ \A o \in Outcomes : o.effect \in BOOLEAN /\ o.ok \in BOOLEAN
  BY DEF PlacesInv, TypeOK, Outcomes
<1>1. CASE ExecuteNoAck
  <2>1. PICK o \in Outcomes : /\ value' = IF o.effect THEN current.arg ELSE value
                              /\ failed' = IF o.ok THEN failed ELSE failed \cup {current.arg}
                              /\ Finish(o.ok)
    BY <1>1 DEF ExecuteNoAck
  <2>2. o.ok => o.effect
    BY DEF Outcomes
  <2>3. DoneStep(o.ok)
    BY <1>1, <2>1, <2>2 DEF ExecuteNoAck, DoneStep
  <2> QED  BY <1>0, <2>3
<1>2. CASE InsertRowNoAck \/ InsertRow
  <2>1. PICK o \in Outcomes : /\ stored' = IF o.effect THEN Append(stored, current.arg) ELSE stored
                              /\ Finish(o.ok)
    BY <1>2 DEF InsertRowNoAck, InsertRow, Insert
  <2>2. DoneStep(o.ok)
    BY <1>2, <2>1 DEF InsertRowNoAck, InsertRow, Insert, DoneStep, IsRow
  <2> QED  BY <1>0, <2>2
<1>3. CASE Query
  <2>1. PICK ok \in BOOLEAN : Finish(ok)
    BY <1>3 DEF Query
  <2>2. DoneStep(ok)
    BY <1>0, <1>3, <2>1 DEF Query, DoneStep, databaseVars
  <2> QED  BY <2>2
<1>4. CASE CreateTable
  <2>1. PICK o \in Outcomes : tables' = (tables \/ o.effect) /\ Finish(o.ok)
    BY <1>4 DEF CreateTable
  <2>2. tables' \in BOOLEAN
    BY <2>1
  <2>3. DoneStep(o.ok)
    BY <1>4, <2>1, <2>2 DEF CreateTable, DoneStep
  <2> QED  BY <1>0, <2>3
<1> QED  BY <1>1, <1>2, <1>3, <1>4

\* The command that was executed is the only one that leaves.
LEMMA DonePlaces ==
  ASSUME PlacesInv, NEW ok \in BOOLEAN, DoneStep(ok)
  PROVE  PlacesInv'
<1>1. Origins' /\ NoClash' /\ OnePlace'
  BY CommandDone DEF DoneStep
<1>2. /\ UNCHANGED <<queue, spawned, waiting, granted, handles, asked, rows, delayed, sets>>
      /\ worker' = "recv" /\ current' = NoCommand
      /\ caller' = [c \in Callers |-> IF c = current.from THEN "answered" ELSE caller[c]]
      /\ read' = [c \in Callers |->
                    IF c = current.from /\ ok /\ current.op = "query" THEN value ELSE read[c]]
  BY DEF DoneStep, Finish, channelVars
<1>3. /\ current.op = "set" => current.arg \in Sets
      /\ IsRow(current) => current.arg \in Rows
  <2>1. current \in UnderWay
    BY DEF UnderWay
  <2> QED  BY <2>1 DEF PlacesInv, Origins, TypeOK, Sets, Rows
<1>4. /\ caller' \in [Callers -> {"idle", "called", "answered"}]
      /\ read' \in [Callers -> Sets \cup {0, None}]
  BY <1>2 DEF PlacesInv, TypeOK
<1>5. tried' \subseteq Rows /\ failed' \subseteq Sets /\ value' \in Sets \cup {0}
  BY <1>3 DEF PlacesInv, TypeOK, DoneStep
<1>6. stored' \in Seq(Rows)
  <2>1. IsRow(current) => Append(stored, current.arg) \in Seq(Rows)
    BY <1>3, AppendProperties DEF PlacesInv, TypeOK
  <2> QED  BY <2>1 DEF PlacesInv, TypeOK, DoneStep
<1>7. tables' \in BOOLEAN
  BY DEF PlacesInv, TypeOK, DoneStep
<1>8. TypeOK'
  BY <1>2, <1>4, <1>5, <1>6, <1>7 DEF PlacesInv, TypeOK
<1> QED  BY <1>1, <1>2, <1>8 DEF PlacesInv

\* A row that is executed counts as tried, and may go to the end of the table.
LEMMA DoneRows ==
  ASSUME QueueInv, NEW ok \in BOOLEAN, DoneStep(ok)
  PROVE  RowsAccountedFor' /\ WhoWaits' /\ RowsInOrder'
<1> USE DEF IsRow
<1>1. /\ UNCHANGED <<queue, spawned, waiting, granted, rows, delayed>> /\ current' = NoCommand
      /\ UnderWay' = (UnderWay \ {current}) \cup {NoCommand} /\ current \in UnderWay
      /\ stored \in Seq(Rows)
  BY CommandDone DEF QueueInv, DoneStep, Finish, channelVars, PlacesInv, TypeOK, UnderWay
<1>2. WhoWaits'
  BY <1>1 DEF QueueInv, WhoWaits
<1>3. CASE ~IsRow(current)
  <2>1. UNCHANGED <<tried, stored>>
    BY <1>3 DEF DoneStep
  <2>2. RowsIn(UnderWay') = RowsIn(UnderWay)
    BY <1>1, <1>3, NoCommandFields DEF RowsIn
  <2>3. RowsAccountedFor'
    BY <1>1, <2>1, <2>2 DEF QueueInv, RowsAccountedFor
  <2>4. RowsInOrder'
    BY <1>1, <2>1, NoCommandFields DEF QueueInv, RowsInOrder, OnlyDelayedOvertaken, MayFollow
  <2> QED  BY <1>2, <2>3, <2>4
<1>4. CASE IsRow(current)
  <2> DEFINE r == current.arg
  <2>1. tried' = tried \cup {r} /\ (stored' = stored \/ stored' = Append(stored, r))
    BY <1>4 DEF DoneStep
  <2>2. r \in RowsIn(UnderWay) /\ r \in Rows /\ r \notin tried /\ r \notin Range(stored)
    BY <1>1, <1>4 DEF QueueInv, PlacesInv, TypeOK, Origins, RowsIn, RowsAccountedFor, Rows
  <2>3. RowsIn(UnderWay') = RowsIn(UnderWay) \ {r}
    BY <1>1, <1>4, NoCommandFields DEF QueueInv, PlacesInv, NoClash, RowsIn
  <2>4. /\ Range(Append(stored, r)) = Range(stored) \cup {r}
        /\ IsInjective(stored) => IsInjective(Append(stored, r))
    BY <1>1, <2>2, Appended
  <2> HIDE DEF r
  <2>5. RowsAccountedFor'
    BY <1>1, <2>1, <2>2, <2>3, <2>4 DEF QueueInv, RowsAccountedFor
  <2>6. stored' = stored => RowsInOrder'
    BY <1>1, NoCommandFields DEF QueueInv, RowsInOrder, OnlyDelayedOvertaken, MayFollow
  <2>7. stored' = Append(stored, r) => RowsInOrder'
    <3> DEFINE n == Len(stored)
    <3>1. SUFFICES ASSUME stored' = Append(stored, r)  PROVE RowsInOrder'
      OBVIOUS
    <3>2. /\ DOMAIN stored = 1 .. n /\ DOMAIN stored' = 1 .. n + 1 /\ n \in Nat
          /\ \A i \in 1 .. n : stored'[i] = stored[i]
          /\ stored'[n + 1] = r
      BY <1>1, <2>2, <3>1, Appended
    <3> HIDE DEF n
    <3>3. /\ \A i \in DOMAIN stored : MayFollow(stored[i], r)
          /\ \A j \in DOMAIN queue : IsRow(queue[j]) => MayFollow(r, queue[j].arg)
      BY <1>4 DEF QueueInv, RowsInOrder, r
    <3>4. OnlyDelayedOvertaken'
      BY <1>1, <3>2, <3>3 DEF QueueInv, RowsInOrder, OnlyDelayedOvertaken, MayFollow
    <3>5. ASSUME NEW j \in DOMAIN queue, IsRow(queue[j]), NEW i \in DOMAIN stored'
          PROVE  MayFollow(stored'[i], queue[j].arg)
      BY <3>2, <3>3, <3>5 DEF QueueInv, RowsInOrder
    <3> QED  BY <1>1, <3>4, <3>5, NoCommandFields DEF QueueInv, RowsInOrder, MayFollow
  <2> QED  BY <1>2, <2>1, <2>5, <2>6, <2>7
<1> QED  BY <1>3, <1>4

\* An upsert that is executed is the oldest there is; a query that is answered has
\* only later ones behind it.
LEMMA DoneSets ==
  ASSUME QueueInv, NEW ok \in BOOLEAN, DoneStep(ok)
  PROVE  SetsInOrder' /\ QueriesInOrder'
<1>1. /\ UNCHANGED <<queue, asked, sets>> /\ current' = NoCommand
      /\ caller' = [c \in Callers |-> IF c = current.from THEN "answered" ELSE caller[c]]
      /\ read' = [c \in Callers |->
                    IF c = current.from /\ ok /\ current.op = "query" THEN value ELSE read[c]]
  BY DEF DoneStep, Finish, channelVars
<1>2. /\ sets \in Nat /\ value \in Nat /\ asked \in [Callers -> Nat]
      /\ read \in [Callers -> Nat \cup {None}]
  <2>1. sets \in Nat /\ value \in Nat
    BY DEF QueueInv, PlacesInv, TypeOK, Sets
  <2>2. asked \in [Callers -> Nat] /\ read \in [Callers -> Nat \cup {None}]
    BY DEF QueueInv, PlacesInv, TypeOK, Sets
  <2> QED  BY <2>1, <2>2
<1>3. /\ current.op = "set" => current.arg \in 1 .. sets
      /\ \A i \in DOMAIN queue : queue[i].op = "set" => queue[i].arg \in 1 .. sets
  BY DEF QueueInv, PlacesInv, Origins, UnderWay, Range
<1>4. failed \subseteq failed'
  BY DEF DoneStep
<1>5. SetsInOrder'
  <2>1. CASE current.op # "set"
    <3>1. UNCHANGED <<value, failed>>
      BY <2>1 DEF DoneStep
    <3> QED  BY <1>1, <2>1, <3>1, NoCommandFields DEF QueueInv, SetsInOrder
  <2>2. CASE current.op = "set"
    <3> DEFINE a == current.arg
    <3>1. \/ value' = a
          \/ value' = value /\ failed' = failed \cup {a}
      BY <2>2 DEF DoneStep, IsRow
    <3>2. /\ a \in 1 .. sets /\ value < a
          /\ \A i \in DOMAIN queue : queue[i].op = "set" =>
               value < queue[i].arg /\ a < queue[i].arg
      BY <1>3, <2>2 DEF QueueInv, SetsInOrder
    <3>3. \A m \in 1 .. sets :
            \/ m <= value \/ m \in failed \/ m = a
            \/ \E i \in DOMAIN queue : queue[i].op = "set" /\ queue[i].arg = m
      BY DEF QueueInv, SetsInOrder
    <3> HIDE DEF a
    <3>4. \A m \in 1 .. sets :
            \/ m <= value' \/ m \in failed'
            \/ \E i \in DOMAIN queue : queue[i].op = "set" /\ queue[i].arg = m
      BY <1>2, <1>4, <3>1, <3>2, <3>3
    <3>5. value' <= sets /\ \A i \in DOMAIN queue : queue[i].op = "set" => value' < queue[i].arg
      BY <1>2, <3>1, <3>2
    <3> QED  BY <1>1, <3>4, <3>5, NoCommandFields DEF QueueInv, SetsInOrder
  <2> QED  BY <2>1, <2>2
<1>6. ReadsOwnWrites'
  <2> SUFFICES ASSUME NEW c \in Callers, read'[c] # None, NEW m \in (read'[c] + 1) .. asked[c]
               PROVE  m \in failed'
    BY <1>1 DEF ReadsOwnWrites
  <2>1. CASE read'[c] = read[c]
    BY <1>4, <2>1 DEF QueueInv, QueriesInOrder, ReadsOwnWrites
  <2>2. CASE read'[c] # read[c]
    <3>1. c = current.from /\ current.op = "query" /\ read'[c] = value
      BY <1>1, <2>2
    <3>2. m \in 1 .. sets /\ value < m /\ m <= asked[c]
      BY <1>2, <3>1 DEF QueueInv, QueriesInOrder
    <3>3. \A j \in DOMAIN queue : queue[j].op = "set" => asked[c] < queue[j].arg
      BY <3>1 DEF QueueInv, QueriesInOrder
    <3>4. \/ m <= value \/ m \in failed
          \/ \E i \in DOMAIN queue : queue[i].op = "set" /\ queue[i].arg = m
      BY <3>1, <3>2 DEF QueueInv, SetsInOrder
    <3>5. m \in Nat /\ value \in Nat /\ asked[c] \in Nat
      BY <1>2, <3>2
    <3>6. ~\E i \in DOMAIN queue : queue[i].op = "set" /\ queue[i].arg = m
      BY <1>3, <3>2, <3>3, <3>5
    <3> QED  BY <1>4, <3>2, <3>4, <3>5, <3>6
  <2> QED  BY <2>1, <2>2
<1>7. QueriesInOrder'
  BY <1>1, <1>6, NoCommandFields DEF QueueInv, QueriesInOrder
<1> QED  BY <1>5, <1>7

\* A call returns to its caller.
LEMMA ReturnKeeps ==
  ASSUME QueueInv, NEW c \in Callers, Return(c)
  PROVE  QueueInv'
<1> USE DEF IsRow
<1>1. /\ UNCHANGED <<queue, spawned, waiting, granted, worker, current, handles, rows, delayed, sets,
                     failed, tried, tables, stored, value>>
      /\ caller[c] = "answered"
      /\ caller' = [caller EXCEPT ![c] = "idle"]
      /\ read' = [read EXCEPT ![c] = None] /\ asked' = [asked EXCEPT ![c] = 0]
  BY DEF Return, channelVars, workerVars, historyVars, databaseVars
<1>2. UnderWay' = UnderWay
  BY <1>1 DEF UnderWay
<1>3. \A x \in UnderWay : x.from # None => x.from # c /\ x.from \in Callers
  BY <1>1, UnderWayIsCommands DEF QueueInv, PlacesInv, Origins, Commands
<1>4. TypeOK'
  BY <1>1 DEF QueueInv, PlacesInv, TypeOK
<1>5. Origins'
  BY <1>1, <1>2, <1>3 DEF QueueInv, PlacesInv, TypeOK, Origins
<1>6. NoClash' /\ OnePlace'
  BY <1>1, <1>2 DEF QueueInv, PlacesInv, NoClash, OnePlace
<1>7. RowsAccountedFor' /\ WhoWaits'
  BY <1>1, <1>2 DEF QueueInv, RowsAccountedFor, RowsIn, WhoWaits
<1>8. RowsInOrder'
  BY <1>1 DEF QueueInv, RowsInOrder, OnlyDelayedOvertaken, MayFollow
<1>9. SetsInOrder'
  BY <1>1 DEF QueueInv, SetsInOrder
<1>10. QueriesInOrder'
  <2>1. \A x \in UnderWay : x.op = "query" => asked'[x.from] = asked[x.from]
    BY <1>1, <1>3 DEF QueueInv, PlacesInv, TypeOK, Origins
  <2>2. /\ \A i \in DOMAIN queue : queue[i].op = "query" =>
             asked'[queue[i].from] = asked[queue[i].from]
        /\ current.op = "query" => asked'[current.from] = asked[current.from]
    BY <2>1 DEF UnderWay, Range
  <2>3. ReadsOwnWrites'
    BY <1>1 DEF QueueInv, PlacesInv, TypeOK, QueriesInOrder, ReadsOwnWrites
  <2>4. \A d \in Callers : asked'[d] <= sets /\ (caller'[d] # "answered" => read'[d] = None)
    BY <1>1 DEF QueueInv, PlacesInv, TypeOK, QueriesInOrder
  <2>5. \A j \in DOMAIN queue : \A i \in 1 .. j - 1 : i \in DOMAIN queue
    BY LenProperties DEF QueueInv, PlacesInv, TypeOK
  <2> QED  BY <1>1, <2>2, <2>3, <2>4, <2>5 DEF QueueInv, QueriesInOrder
<1> QED  BY <1>1, <1>4, <1>5, <1>6, <1>7, <1>8, <1>9, <1>10 DEF QueueInv, PlacesInv

\* The end of the bootstrap, the end of the worker, and the handles: no command moves.
LEMMA NothingMoves ==
  ASSUME QueueInv, worker' \in {worker, "recv", "ended"}, worker' # worker => worker # "busy",
         handles' \subseteq {"client", "manager"},
         UNCHANGED <<channelVars, current, callerVars, historyVars, databaseVars>>
  PROVE  QueueInv'
<1> USE DEF channelVars, callerVars, historyVars, databaseVars, IsRow
<1>1. TypeOK' /\ IsFiniteSet(granted)'
  BY DEF QueueInv, PlacesInv, TypeOK
<1>2. UnderWay' = UnderWay
  BY DEF UnderWay
<1>3. Origins' /\ NoClash' /\ OnePlace'
  BY <1>2 DEF QueueInv, PlacesInv, Origins, NoClash, OnePlace
<1>4. RowsAccountedFor' /\ WhoWaits'
  BY <1>2 DEF QueueInv, RowsAccountedFor, RowsIn, WhoWaits
<1>5. RowsInOrder'
  BY DEF QueueInv, RowsInOrder, OnlyDelayedOvertaken, MayFollow
<1>6. SetsInOrder' /\ QueriesInOrder'
  BY DEF QueueInv, SetsInOrder, QueriesInOrder, ReadsOwnWrites
<1> QED  BY <1>1, <1>3, <1>4, <1>5, <1>6 DEF QueueInv, PlacesInv

-----------------------------------------------------------------------------
(* The theorems. *)

\* Every step of the submitters, callers, tasks and the worker keeps QueueInv.
LEMMA QueueInvStep ==
  ASSUME QueueInv, [Next]_vars
  PROVE  QueueInv'
<1>0. PlacesInv
  BY DEF QueueInv
<1>1. ASSUME \/ try_set_position \/ try_submit_insert_row \/ submit_insert_row_best_effort
             \/ \E c \in Callers : ensure_position_schema(c) \/ get_position(c) \/ insert_row(c)
      PROVE  QueueInv'
  <2>1. PICK cmd : NewStep(cmd)
    BY <1>0, <1>1, SubmissionsAreNew
  <2> QED  BY <1>0, <2>1, NewPlaces, NewRows, NewSets DEF QueueInv
<1>2. ASSUME SpawnedSend \/ Granted  PROVE QueueInv'
  <2>1. PICK cmd : MoveStep(cmd)
    BY <1>2, PollsAreMoves
  <2> QED  BY <1>0, <2>1, MovePlaces, MoveRows, MoveSets DEF QueueInv
<1>3. ASSUME ExecuteNoAck \/ InsertRowNoAck \/ InsertRow \/ Query \/ CreateTable  PROVE QueueInv'
  <2>1. PICK ok \in BOOLEAN : DoneStep(ok)
    BY <1>0, <1>3, ExecutionsAreDone
  <2> QED  BY <1>0, <2>1, DonePlaces, DoneRows, DoneSets DEF QueueInv
<1>4. ASSUME Boot \/ Ends \/ add_db \/ remove_db \/ DropClient \/ UNCHANGED vars  PROVE QueueInv'
  <2>1. /\ worker' \in {worker, "recv", "ended"} /\ (worker' # worker => worker # "busy")
        /\ UNCHANGED <<channelVars, current, callerVars, historyVars, databaseVars>>
    BY <1>4 DEF Boot, Ends, add_db, remove_db, DropClient, vars, HandleElsewhere, workerVars
  <2>2. handles' \subseteq {"client", "manager"}
    BY <1>4 DEF Boot, Ends, add_db, remove_db, DropClient, vars, QueueInv, PlacesInv, TypeOK
  <2> QED  BY <2>1, <2>2, NothingMoves
<1> QED  BY <1>1, <1>2, <1>3, <1>4, ReceiveKeeps, ReturnKeeps DEF Next, Worker

\* An empty queue and an empty database.
LEMMA QueueInitInv == Init => QueueInv
<1> SUFFICES ASSUME Init PROVE QueueInv
  OBVIOUS
<1> USE DEF Init, IsRow
<1>1. TypeOK /\ IsFiniteSet(granted)
  <2>1. IsFiniteSet({}) /\ Cardinality({}) = 0
    BY FS_EmptySet
  <2>2. <<>> \in Seq(Commands) /\ <<>> \in Seq(Rows) /\ Len(<<>>) = 0
    BY EmptySeq
  <2>3. caller \in [Callers -> {"idle", "called", "answered"}]
    BY DEF Init
  <2>4. read \in [Callers -> Sets \cup {0, None}] /\ asked \in [Callers -> Sets \cup {0}]
    BY DEF Init
  <2>5. Len(queue) + Cardinality(granted) <= QueueCap
    BY <2>1, <2>2
  <2>6. rows \in 0 .. MaxRows /\ sets \in 0 .. MaxSets /\ handles \subseteq {"client", "manager"}
    BY DEF Init
  <2>7. tables \in BOOLEAN /\ value \in Sets \cup {0}
    BY DEF Init
  <2> HIDE DEF Init
  <2>8. /\ queue = <<>> /\ waiting = <<>> /\ spawned = {} /\ granted = {} /\ stored = <<>>
        /\ worker = "boot" /\ current = NoCommand /\ delayed = {} /\ tried = {} /\ failed = {}
    BY DEF Init
  <2> QED  BY <2>1, <2>2, <2>3, <2>4, <2>5, <2>6, <2>7, <2>8 DEF TypeOK
<1>2. Range(<<>>) = {} /\ IsInjective(<<>>)
  BY DEF Range, IsInjective
<1>3. UnderWay = {NoCommand}
  BY <1>2 DEF UnderWay
<1>4. Origins /\ NoClash /\ OnePlace
  BY <1>2, <1>3, NoCommandFields DEF Origins, NoClash, OnePlace
<1>5. RowsAccountedFor /\ WhoWaits
  <2>1. RowsIn(UnderWay) = {}
    BY <1>3, NoCommandFields DEF RowsIn
  <2> QED  BY <1>2, <2>1 DEF RowsAccountedFor, WhoWaits
<1>6. RowsInOrder /\ SetsInOrder /\ QueriesInOrder
  BY NoCommandFields DEF RowsInOrder, OnlyDelayedOvertaken, SetsInOrder, QueriesInOrder, ReadsOwnWrites
<1> QED  BY <1>1, <1>4, <1>5, <1>6 DEF QueueInv, PlacesInv

\* QueueInv is an invariant of the command queue.
THEOREM QueueInvAlways == Spec => []QueueInv
BY QueueInitInv, QueueInvStep, PTL DEF Spec

\* The channel never holds more than its capacity, and nobody waits while there is
\* room; every variable keeps its type.
THEOREM QueueTypes == Spec => []TypeOK
BY QueueInvAlways, PTL DEF QueueInv, PlacesInv

\* No row that was accepted is lost, tried twice or stored twice, whatever way it
\* took through try_send, spawned tasks and permits.
THEOREM RowsAlwaysAccountedFor == Spec => []RowsAccountedFor
BY QueueInvAlways, PTL DEF QueueInv

\* The table has the rows in the order they were submitted, but for those that
\* found the queue full.
THEOREM OnlyDelayedAreOvertaken == Spec => []OnlyDelayedOvertaken
BY QueueInvAlways, PTL DEF QueueInv, RowsInOrder

\* get_position answers with the last accepted value or a later one, but for upserts
\* that failed.
THEOREM ReadsSeeOwnWrites == Spec => []ReadsOwnWrites
BY QueueInvAlways, PTL DEF QueueInv, QueriesInOrder

=============================================================================
