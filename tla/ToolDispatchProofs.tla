-------------------------- MODULE ToolDispatchProofs ---------------------------
(***************************************************************************)
(* What holds of the tool calls and of the event log for any files, number *)
(* of calls and number of mishaps.                                         *)
(***************************************************************************)
EXTENDS ToolDispatch, SequenceTheorems, WellFoundedInduction, TLAPS

-----------------------------------------------------------------------------
(* The inductive invariants.                                               *)

Clean == faults = 0 /\ overlap = "no"

(* One handler works at a time, unless the agent gave up on a call.        *)
ExecutionInv ==
  overlap = "no" => \A g, h \in Handlers : Working(g) /\ Working(h) => g = h

(* The log has a last event.                                               *)
LastInv == events # {} => \E e \in events : \A d \in events : d.seq <= e.seq

(* The place of the last thing the agent said.                             *)
Horizon == 3 * current + IF waiting = "yes" THEN 0 ELSE 2

Spoken == {e \in events : e.by = "orchestrator"}

(* What the agent said is, in its order, in the log, with the orchestrator *)
(* and in the stream.                                                      *)
StreamInv ==
  /\ \A i \in 1..Len(stream) : Place(stream[i]) <= Horizon
  /\ \A i, j \in 1..Len(stream) : i < j => Place(stream[i]) < Place(stream[j])
  /\ storing # Idle =>
       /\ Place(storing) <= Horizon
       /\ \A i \in 1..Len(stream) : Place(storing) < Place(stream[i])
  /\ \A e \in Spoken :
       /\ Place(e) <= Horizon
       /\ \A i \in 1..Len(stream) : Place(e) < Place(stream[i])
       /\ storing # Idle => Place(e) < Place(storing) /\ e.seq < storing.seq
  /\ \A d, e \in Spoken : Place(d) < Place(e) => d.seq < e.seq

(* A number is stored once.                                                *)
NumbersUnique == \A d, e \in events : d.seq = e.seq => d = e

(* What one of the two writers is about to store has a number above those  *)
(* it stored and lost; so a row that refuses it is one of the other.       *)
Above(n, who) == \A e \in events \cup lost : e.by = who => e.seq < n

LossInv ==
  overlap = "no" =>
    /\ storing # Idle => Above(storing.seq, "orchestrator")
    /\ \A h \in Handlers : hpc[h] = "logging" => Above(seq[h], "handler")
    /\ \A l \in lost : \E e \in events : e.seq = l.seq /\ e.by # l.by
    /\ \A l, m \in lost : l.seq = m.seq => l = m

(* What a handler has yet to store.                                        *)
DiffOf(h) == [tool |-> Tool(h), path |-> Path(h), to |-> Dest(h), old |-> old[h], new |-> h]
Diffs == [tool : Tools, path : Files, to : Files, old : 0..Unwritten, new : Calls]

(* The diffs are rows, and calls are posted in their order.                *)
LogInv ==
  /\ diffs \in Seq(Diffs)
  /\ \A c \in Calls : request[c].tool # "none" => c <= current

(* Handlers work on allowed calls.  What a handler read of the file it     *)
(* writes is what the file has, since no other handler works meanwhile;    *)
(* so the diff it stores leads from the diffs before it to the files.      *)
DiffInv ==
  Clean =>
    /\ \A h \in Handlers : Working(h) => Tool(h) \in AllowedTools
    /\ \A h \in Handlers : hpc[h] = "writing" /\ Tool(h) = "write_file" => old[h] = files[Path(h)]
    /\ \A h \in Handlers : hpc[h] = "diffing" => Apply(Replayed(diffs), DiffOf(h)) = files
    /\ (\A h \in Handlers : hpc[h] # "diffing") => Replayed(diffs) = files
-----------------------------------------------------------------------------
(* Proofs.                                                                 *)

(* What a handler works on is a call that was posted.                      *)
PostedInv == \A h \in Handlers : hpc[h] # "none" => request[h].tool # "none"

DispatchType == TypeOK /\ PostedInv /\ LastInv

(* The number of a new event is above those in the log.                    *)
LEMMA NextSeqIsNew ==
  ASSUME TypeOK, LastInv
  PROVE  /\ NextEventSeq(events) \in Nat
         /\ \A e \in events : e.seq < NextEventSeq(events)
<1>1. CASE events = {}
  BY <1>1 DEF NextEventSeq
<1>2. CASE events # {}
  <2>1. \A e \in events : e.seq \in Nat
    BY DEF TypeOK, DataTypeOK, Rows
  <2> DEFINE Greatest(n) == n \in {e.seq : e \in events} /\ \A e \in events : e.seq <= n
  <2>2. \E n : Greatest(n)
    BY <1>2 DEF LastInv
  <2> DEFINE last == CHOOSE n \in {e.seq : e \in events} : \A e \in events : e.seq <= n
  <2>3. Greatest(last)
    BY <2>2
  <2>4. NextEventSeq(events) = 1 + last
    BY <1>2 DEF NextEventSeq
  <2>5. last \in Nat /\ \A e \in events : e.seq <= last
    BY <2>1, <2>3
  <2> HIDE DEF last
  <2> QED BY <2>1, <2>4, <2>5
<1> QED BY <1>1, <1>2

(* A log with one more event still has a last one.                         *)
LEMMA AddKeepsLast ==
  ASSUME TypeOK, LastInv, NEW row \in Rows, events' = events \cup {row}
  PROVE  LastInv'
<1> USE DEF LastInv, TypeOK, DataTypeOK, Rows
<1>1. CASE events = {}
  BY <1>1
<1>2. CASE events # {}
  <2>1. PICK last \in events : \A d \in events : d.seq <= last.seq
    BY <1>2
  <2>2. CASE row.seq <= last.seq
    BY <2>1, <2>2
  <2>3. CASE ~(row.seq <= last.seq)
    BY <2>1, <2>3
  <2> QED BY <2>2, <2>3
<1> QED BY <1>1, <1>2

(* What an INSERT leaves of the log.                                       *)
LEMMA InsertedLog ==
  ASSUME TypeOK, LastInv, NEW row \in Rows, InsertEvent(row)
  PROVE  /\ events' \subseteq Rows /\ lost' \subseteq Rows /\ LastInv'
         /\ \/ UNCHANGED logVars
            \/ ~Clashes(row) /\ events' = events \cup {row} /\ lost' = lost
            \/ Clashes(row) /\ lost' = lost \cup {row} /\ events' = events
<1>1. CASE ~Clashes(row) /\ events' = events \cup {row} /\ lost' = lost
  <2>1. LastInv'
    BY <1>1, AddKeepsLast
  <2> QED BY <1>1, <2>1 DEF TypeOK, DataTypeOK
<1>2. CASE Clashes(row) /\ lost' = lost \cup {row} /\ events' = events
  BY <1>2 DEF TypeOK, DataTypeOK, LastInv
<1>3. CASE UNCHANGED logVars
  BY <1>3 DEF TypeOK, DataTypeOK, LastInv, logVars
<1> QED BY <1>1, <1>2, <1>3 DEF InsertEvent, logVars

(* The rows that the two writers store.                                    *)
LoggedRow(h) == [by |-> "handler", event |-> "tool_result", call |-> h, seq |-> seq[h]]

LEMMA WrittenRows ==
  ASSUME TypeOK
  PROVE  /\ storing # Idle => ToldRow \in Rows
         /\ \A h \in Handlers : LoggedRow(h) \in Rows
<1>1. storing # Idle => ToldRow \in Rows
  BY DEF TypeOK, AgentTypeOK, ToldRow, Rows
<1>2. \A h \in Handlers : LoggedRow(h) \in Rows
  BY DEF TypeOK, HandlerTypeOK, LoggedRow, Rows, Kinds, Handlers
<1> QED BY <1>1, <1>2

(* A handler works on a call that was posted, on paths there are.          *)
LEMMA HandledCall ==
  ASSUME DispatchType, NEW h \in Handlers, hpc[h] # "none"
  PROVE  h \in Calls /\ Tool(h) \in Tools /\ Path(h) \in Files /\ Dest(h) \in Files
<1>1. h \in Calls /\ request[h].tool # "none"
  BY DEF DispatchType, PostedInv, Handlers
<1>2. request[h] \in [tool : Tools, path : Files, to : Files]
  BY <1>1 DEF DispatchType, TypeOK, AgentTypeOK
<1> QED BY <1>1, <1>2 DEF Tool, Path, Dest

(* What a new call is.                                                     *)
LEMMA PostedCall ==
  Post => \E tool \in Tools, path \in Files, to \in Files :
             request' = [request EXCEPT ![current + 1] = [tool |-> tool, path |-> path, to |-> to]]
  BY Zenon DEF Post

(* The two events that end a call.                                         *)
LEMMA ToldType ==
  ASSUME AgentTypeOK, waiting = "yes"
  PROVE  /\ Told \in Seq(Said) /\ Len(Told) = 2
         /\ Told[1] = [event |-> "tool_call", call |-> current]
         /\ Told[2] = [event |-> "tool_result", call |-> current]
<1>1. current \in Calls
  BY BoundsAssumption DEF AgentTypeOK, Calls
<1>2. [event |-> "tool_call", call |-> current] \in Said
          /\ [event |-> "tool_result", call |-> current] \in Said
  BY <1>1 DEF Said, Kinds
<1> QED BY <1>2 DEF Told

(* A step keeps the agent's variables in their types.                     *)
LEMMA AgentTypeStep == DispatchType /\ [Next]_vars => AgentTypeOK'
<1> SUFFICES ASSUME DispatchType, [Next]_vars PROVE AgentTypeOK'
  OBVIOUS
<1> USE BoundsAssumption DEF DispatchType, TypeOK, AgentTypeOK, agentVars, streamVars, handlerVars,
        dataVars, logVars, Fault, Calls, Kinds, Said
<1>1. CASE Post
  <2>1. current + 1 \in Calls
    BY <1>1 DEF Post, DataTypeOK
  <2>5. PICK tool \in Tools, path \in Files, to \in Files :
           request' = [request EXCEPT ![current + 1] = [tool |-> tool, path |-> path, to |-> to]]
    BY <1>1, PostedCall
  <2>2. request' \in [Calls -> [tool : {"none"}] \cup [tool : Tools, path : Files, to : Files]]
    BY <2>5
  <2>3. [event |-> "reasoning", call |-> current + 1] \in Said
    BY <2>1
  <2>4. stream' \in Seq(Said)
    BY <1>1, <2>3, AppendProperties DEF Post
  <2> QED BY <1>1, <2>1, <2>2, <2>4 DEF Post
<1>2. CASE GiveUp
  <2>1. stream' \in Seq(Said)
    BY <1>2, ToldType, ConcatProperties DEF GiveUp
  <2> QED BY <1>2, <2>1 DEF GiveUp
<1>3. CASE ReadEvent
  <2>1. Head(stream) \in Said /\ stream' \in Seq(Said)
    BY <1>3, HeadTailProperties DEF ReadEvent
  <2>2. NextEventSeq(events) \in Nat
    BY NextSeqIsNew
  <2>3. storing' \in [event : Kinds, call : Calls, seq : Nat]
    BY <1>3, <2>1, <2>2 DEF ReadEvent
  <2> QED BY <1>3, <2>1, <2>3 DEF ReadEvent
<1>4. CASE StoreEvent
  BY <1>4 DEF StoreEvent
<1>5. ASSUME NEW h \in Handlers, Receive(h) PROVE AgentTypeOK'
  BY <1>5 DEF Receive
<1>6. ASSUME NEW h \in Handlers, ReadOld(h) PROVE AgentTypeOK'
  BY <1>6 DEF ReadOld
<1>7. ASSUME NEW h \in Handlers, Perform(h) PROVE AgentTypeOK'
  BY <1>7 DEF Perform
<1>8. ASSUME NEW h \in Handlers, CreateDiff(h) PROVE AgentTypeOK'
  BY <1>8 DEF CreateDiff
<1>9. ASSUME NEW h \in Handlers, NumberEvent(h) PROVE AgentTypeOK'
  BY <1>9 DEF NumberEvent
<1>10. ASSUME NEW h \in Handlers, LogEvent(h) PROVE AgentTypeOK'
  BY <1>10 DEF LogEvent
<1>11. ASSUME NEW h \in Handlers, Reply(h) PROVE AgentTypeOK'
  <2>1. CASE waiting = "yes" /\ h = current
    <3>2. Told \in Seq(Said) /\ stream' = stream \o Told
      BY <1>11, <2>1, ToldType DEF Reply
    <3>1. stream' \in Seq(Said)
      BY <3>2, ConcatProperties
    <3> QED BY <1>11, <2>1, <3>1 DEF Reply
  <2>2. CASE ~(waiting = "yes" /\ h = current)
    BY <1>11, <2>2 DEF Reply
  <2> QED BY <2>1, <2>2
<1>12. CASE UNCHANGED vars
  BY <1>12 DEF vars
<1> QED BY <1>1, <1>2, <1>3, <1>4, <1>5, <1>6, <1>7, <1>8, <1>9, <1>10, <1>11, <1>12 DEF Next, Handle

(* A step keeps the handlers' variables in their types.                   *)
LEMMA HandlerTypeStep == DispatchType /\ [Next]_vars => HandlerTypeOK'
<1> SUFFICES ASSUME DispatchType, [Next]_vars PROVE HandlerTypeOK'
  OBVIOUS
<1> USE BoundsAssumption DEF DispatchType, TypeOK, HandlerTypeOK, agentVars, streamVars, handlerVars,
        dataVars, logVars, Fault, HPCs, Go, Unwritten, Absent
<1>1. CASE Post
  BY <1>1 DEF Post
<1>2. CASE GiveUp
  BY <1>2 DEF GiveUp
<1>3. CASE ReadEvent
  BY <1>3 DEF ReadEvent
<1>4. CASE StoreEvent
  BY <1>4 DEF StoreEvent
<1>5. ASSUME NEW h \in Handlers, Receive(h) PROVE HandlerTypeOK'
  BY <1>5 DEF Receive, Begin
<1>6. ASSUME NEW h \in Handlers, ReadOld(h) PROVE HandlerTypeOK'
  <2>1. Path(h) \in Files
    BY <1>6, HandledCall DEF ReadOld
  <2>2. files[Path(h)] \in 0..Unwritten
    BY <2>1 DEF DataTypeOK
  <2>3. old' = [old EXCEPT ![h] = files[Path(h)]] \/ old' = old
    BY <1>6 DEF ReadOld
  <2>4. old' \in [Handlers -> 0..Unwritten]
    BY <2>2, <2>3
  <2> QED BY <1>6, <2>4 DEF ReadOld
<1>7. ASSUME NEW h \in Handlers, Perform(h) PROVE HandlerTypeOK'
  BY <1>7 DEF Perform
<1>8. ASSUME NEW h \in Handlers, CreateDiff(h) PROVE HandlerTypeOK'
  BY <1>8 DEF CreateDiff
<1>9. ASSUME NEW h \in Handlers, NumberEvent(h) PROVE HandlerTypeOK'
  <2>1. NextEventSeq(events) \in Nat
    BY NextSeqIsNew
  <2> QED BY <1>9, <2>1 DEF NumberEvent
<1>10. ASSUME NEW h \in Handlers, LogEvent(h) PROVE HandlerTypeOK'
  BY <1>10 DEF LogEvent
<1>11. ASSUME NEW h \in Handlers, Reply(h) PROVE HandlerTypeOK'
  BY <1>11 DEF Reply
<1>12. CASE UNCHANGED vars
  BY <1>12 DEF vars
<1> QED BY <1>1, <1>2, <1>3, <1>4, <1>5, <1>6, <1>7, <1>8, <1>9, <1>10, <1>11, <1>12 DEF Next, Handle

(* A step keeps the rest in its type.                                     *)
LEMMA DataTypeStep == DispatchType /\ [Next]_vars => DataTypeOK'
<1> SUFFICES ASSUME DispatchType, [Next]_vars PROVE DataTypeOK'
  OBVIOUS
<1> USE BoundsAssumption DEF DispatchType, TypeOK, DataTypeOK, agentVars, streamVars, handlerVars,
        dataVars, logVars, Fault
<1>1. CASE Post
  BY <1>1 DEF Post
<1>2. CASE GiveUp
  BY <1>2 DEF GiveUp
<1>3. CASE ReadEvent
  BY <1>3 DEF ReadEvent
<1>4. CASE StoreEvent
  <2>1. events' \subseteq Rows /\ lost' \subseteq Rows
    BY <1>4, WrittenRows, InsertedLog DEF StoreEvent
  <2>2. faults' \in Nat
    BY <1>4 DEF StoreEvent, InsertEvent
  <2> QED BY <1>4, <2>1, <2>2 DEF StoreEvent
<1>5. ASSUME NEW h \in Handlers, Receive(h) PROVE DataTypeOK'
  BY <1>5 DEF Receive
<1>6. ASSUME NEW h \in Handlers, ReadOld(h) PROVE DataTypeOK'
  BY <1>6 DEF ReadOld
<1>7. ASSUME NEW h \in Handlers, Perform(h) PROVE DataTypeOK'
  <2>1. h \in Calls /\ Path(h) \in Files /\ Dest(h) \in Files
    BY <1>7, HandledCall DEF Perform
  <2>2. h \in 0..Unwritten /\ 0 \in 0..Unwritten
    BY <2>1 DEF Calls, Unwritten
  <2>3. After(h, files) \in [Files -> 0..Unwritten]
    BY <2>1, <2>2 DEF After, Absent
  <2>4. files' \in [Files -> 0..Unwritten]
    BY <1>7, <2>3 DEF Perform
  <2> QED BY <1>7, <2>4 DEF Perform
<1>8. ASSUME NEW h \in Handlers, CreateDiff(h) PROVE DataTypeOK'
  BY <1>8 DEF CreateDiff
<1>9. ASSUME NEW h \in Handlers, NumberEvent(h) PROVE DataTypeOK'
  BY <1>9 DEF NumberEvent
<1>10. ASSUME NEW h \in Handlers, LogEvent(h) PROVE DataTypeOK'
  <2>1. events' \subseteq Rows /\ lost' \subseteq Rows
    BY <1>10, WrittenRows, InsertedLog DEF LogEvent, LoggedRow
  <2>2. faults' \in Nat
    BY <1>10 DEF LogEvent, InsertEvent
  <2> QED BY <1>10, <2>1, <2>2 DEF LogEvent
<1>11. ASSUME NEW h \in Handlers, Reply(h) PROVE DataTypeOK'
  BY <1>11 DEF Reply
<1>12. CASE UNCHANGED vars
  BY <1>12 DEF vars
<1> QED BY <1>1, <1>2, <1>3, <1>4, <1>5, <1>6, <1>7, <1>8, <1>9, <1>10, <1>11, <1>12 DEF Next, Handle

(* A handler only works on what was posted.                               *)
LEMMA PostedStep == DispatchType /\ [Next]_vars => PostedInv'
<1> SUFFICES ASSUME DispatchType, [Next]_vars PROVE PostedInv'
  OBVIOUS
<1> USE BoundsAssumption DEF DispatchType, TypeOK, HandlerTypeOK, AgentTypeOK, PostedInv, agentVars,
        streamVars, handlerVars, dataVars, logVars, Fault, Calls, Handlers, HPCs, Go
<1>1. CASE Post
  <2>1. PICK tool \in Tools, path \in Files, to \in Files :
           request' = [request EXCEPT ![current + 1] = [tool |-> tool, path |-> path, to |-> to]]
    BY <1>1, PostedCall
  <2>2. \A c \in Calls : request[c].tool # "none" => request'[c].tool # "none"
    BY <2>1 DEF Tools, AllowedTools
  <2> QED BY <1>1, <2>2 DEF Post
<1>2. CASE GiveUp
  BY <1>2 DEF GiveUp
<1>3. CASE ReadEvent
  BY <1>3 DEF ReadEvent
<1>4. CASE StoreEvent
  BY <1>4 DEF StoreEvent
<1>5. ASSUME NEW h \in Handlers, Receive(h) PROVE PostedInv'
  BY <1>5 DEF Receive, Tool
<1>6. ASSUME NEW h \in Handlers, ReadOld(h) PROVE PostedInv'
  BY <1>6 DEF ReadOld
<1>7. ASSUME NEW h \in Handlers, Perform(h) PROVE PostedInv'
  BY <1>7 DEF Perform
<1>8. ASSUME NEW h \in Handlers, CreateDiff(h) PROVE PostedInv'
  BY <1>8 DEF CreateDiff
<1>9. ASSUME NEW h \in Handlers, NumberEvent(h) PROVE PostedInv'
  BY <1>9 DEF NumberEvent
<1>10. ASSUME NEW h \in Handlers, LogEvent(h) PROVE PostedInv'
  BY <1>10 DEF LogEvent
<1>11. ASSUME NEW h \in Handlers, Reply(h) PROVE PostedInv'
  BY <1>11 DEF Reply
<1>12. CASE UNCHANGED vars
  BY <1>12 DEF vars
<1> QED BY <1>1, <1>2, <1>3, <1>4, <1>5, <1>6, <1>7, <1>8, <1>9, <1>10, <1>11, <1>12 DEF Next, Handle

(* A step keeps a last event.                                             *)
LEMMA LastStep == DispatchType /\ [Next]_vars => LastInv'
<1> SUFFICES ASSUME DispatchType, [Next]_vars PROVE LastInv'
  OBVIOUS
<1> USE DEF DispatchType, LastInv, agentVars, streamVars, handlerVars, dataVars, logVars, Fault
<1>1. CASE Post
  BY <1>1 DEF Post
<1>2. CASE GiveUp
  BY <1>2 DEF GiveUp
<1>3. CASE ReadEvent
  BY <1>3 DEF ReadEvent
<1>4. CASE StoreEvent
  BY <1>4, WrittenRows, InsertedLog DEF StoreEvent
<1>5. ASSUME NEW h \in Handlers, Receive(h) PROVE LastInv'
  BY <1>5 DEF Receive
<1>6. ASSUME NEW h \in Handlers, ReadOld(h) PROVE LastInv'
  BY <1>6 DEF ReadOld
<1>7. ASSUME NEW h \in Handlers, Perform(h) PROVE LastInv'
  BY <1>7 DEF Perform
<1>8. ASSUME NEW h \in Handlers, CreateDiff(h) PROVE LastInv'
  BY <1>8 DEF CreateDiff
<1>9. ASSUME NEW h \in Handlers, NumberEvent(h) PROVE LastInv'
  BY <1>9 DEF NumberEvent
<1>10. ASSUME NEW h \in Handlers, LogEvent(h) PROVE LastInv'
  BY <1>10, WrittenRows, InsertedLog DEF LogEvent, LoggedRow
<1>11. ASSUME NEW h \in Handlers, Reply(h) PROVE LastInv'
  BY <1>11 DEF Reply
<1>12. CASE UNCHANGED vars
  BY <1>12 DEF vars
<1> QED BY <1>1, <1>2, <1>3, <1>4, <1>5, <1>6, <1>7, <1>8, <1>9, <1>10, <1>11, <1>12 DEF Next, Handle

(* A step keeps every variable in its type.                                *)
LEMMA TypeStep == DispatchType /\ [Next]_vars => DispatchType'
  BY AgentTypeStep, HandlerTypeStep, DataTypeStep, PostedStep, LastStep DEF DispatchType, TypeOK

(* A fault is not forgotten.                                               *)
LEMMA TypedFaults == DispatchType => faults \in Nat /\ ~(faults + 1 = 0)
  BY DEF DispatchType, TypeOK, DataTypeOK

(* A step keeps one handler at work.                                       *)
LEMMA ExecutionStep == DispatchType /\ ExecutionInv /\ [Next]_vars => ExecutionInv'
<1> SUFFICES ASSUME DispatchType, ExecutionInv, [Next]_vars PROVE ExecutionInv'
  OBVIOUS
<1> USE DEF ExecutionInv, Working
<1>0. hpc \in [Handlers -> HPCs]
  BY DEF DispatchType, TypeOK, HandlerTypeOK
<1>1. CASE UNCHANGED <<hpc, overlap>>
  BY <1>1
<1>2. CASE Post \/ GiveUp \/ ReadEvent \/ StoreEvent \/ UNCHANGED vars
  BY <1>1, <1>2 DEF Post, GiveUp, ReadEvent, StoreEvent, vars, handlerVars
<1>3. ASSUME NEW h \in Handlers, Receive(h) PROVE ExecutionInv'
  <2>1. overlap' = "no" => \A g \in Handlers : ~Working(g)
    BY <1>3 DEF Receive
  <2>2. \A g \in Handlers : g # h => hpc'[g] = hpc[g]
    BY <1>0, <1>3 DEF Receive, Go
  <2> QED BY <2>1, <2>2
<1>4. ASSUME NEW h \in Handlers, UNCHANGED overlap, Working(h), NEW to, hpc' = [hpc EXCEPT ![h] = to]
      PROVE  ExecutionInv'
  BY <1>0, <1>4
<1>5. ASSUME NEW h \in Handlers, Reply(h) PROVE ExecutionInv'
  <2>1. UNCHANGED overlap /\ hpc' = [hpc EXCEPT ![h] = "done"]
    BY <1>5 DEF Reply, Go
  <2> QED BY <1>0, <2>1
<1>6. ASSUME NEW h \in Handlers, Handle(h), ~Receive(h), ~Reply(h)
      PROVE  UNCHANGED overlap /\ Working(h) /\ \E to : hpc' = [hpc EXCEPT ![h] = to]
  BY <1>6 DEF Handle, ReadOld, Perform, CreateDiff, NumberEvent, LogEvent, Go
<1> QED BY <1>2, <1>3, <1>4, <1>5, <1>6 DEF Next

(* The place of an event depends on its kind and its call.                 *)
LEMMA PlaceOfCall ==
  ASSUME NEW e, e.event \in Kinds, e.call \in Calls
  PROVE  /\ Place(e) = 3 * e.call + (IF e.event = "reasoning" THEN 0 ELSE IF e.event = "tool_call" THEN 1 ELSE 2)
         /\ Place(e) \in Nat
<1>1. e.call \in Nat
  BY DEF Calls
<1> QED BY <1>1 DEF Place, Kinds

(* Every event has a place.                                                *)
LEMMA PlacesType ==
  ASSUME DispatchType
  PROVE  /\ \A i \in 1..Len(stream) : stream[i] \in Said /\ Place(stream[i]) \in Nat
         /\ storing # Idle => Place(storing) \in Nat /\ storing.seq \in Nat
         /\ \A e \in events : Place(e) \in Nat /\ e.seq \in Nat
         /\ Len(stream) \in Nat /\ current \in Nat /\ Horizon \in Nat
<1> USE DEF DispatchType, TypeOK, AgentTypeOK, DataTypeOK
<1>1. \A i \in 1..Len(stream) : stream[i] \in Said
  OBVIOUS
<1>2. \A e \in Said : Place(e) \in Nat
  BY PlaceOfCall DEF Said
<1>3. storing # Idle => Place(storing) \in Nat /\ storing.seq \in Nat
  BY PlaceOfCall
<1>4. \A e \in events : Place(e) \in Nat /\ e.seq \in Nat
  BY PlaceOfCall DEF Rows
<1>5. Len(stream) \in Nat /\ current \in Nat
  BY BoundsAssumption
<1>6. Horizon \in Nat
  BY <1>5 DEF Horizon
<1> QED BY <1>1, <1>2, <1>3, <1>4, <1>5, <1>6

(* What is told at the end of a call comes after all that was said.        *)
LEMMA ToldComesLast ==
  ASSUME DispatchType, StreamInv, waiting = "yes", waiting' = "no", stream' = stream \o Told,
         UNCHANGED <<current, storing, events>>
  PROVE  StreamInv'
<1>1. Told \in Seq(Said) /\ Len(Told) = 2 /\ stream \in Seq(Said) /\ current \in Calls
  BY ToldType, BoundsAssumption DEF DispatchType, TypeOK, AgentTypeOK, Calls
<1>2. Place(Told[1]) = 3 * current + 1 /\ Place(Told[2]) = 3 * current + 2
  BY <1>1, ToldType DEF Place, DispatchType, TypeOK
<1>3. Horizon = 3 * current /\ Horizon' = 3 * current + 2 /\ current \in Nat
  BY <1>1 DEF Horizon, Calls
<1>4. Len(stream') = Len(stream) + 2 /\ Len(stream) \in Nat
  BY <1>1, ConcatProperties
<1>5. \A i \in 1..Len(stream) : stream'[i] = stream[i]
  BY <1>1, <1>4, ConcatProperties
<1>6. stream'[Len(stream) + 1] = Told[1] /\ stream'[Len(stream) + 2] = Told[2]
  BY <1>1, <1>4, ConcatProperties
<1>7. \A i \in 1..Len(stream') : i \in 1..Len(stream) \/ i = Len(stream) + 1 \/ i = Len(stream) + 2
  BY <1>4
<1> DEFINE at(i) == Place(stream[i])
           after(i) == Place(stream'[i])
<1>8. \A i \in 1..Len(stream) : after(i) = at(i) /\ at(i) \in Nat /\ at(i) <= 3 * current
  BY <1>3, <1>5, PlacesType DEF StreamInv
<1>9. after(Len(stream) + 1) = 3 * current + 1 /\ after(Len(stream) + 2) = 3 * current + 2
  BY <1>2, <1>6
<1>10. \A i, j \in 1..Len(stream) : i < j => at(i) < at(j)
  BY DEF StreamInv
<1>11. \A i \in 1..Len(stream') : after(i) \in Nat /\ after(i) <= Horizon'
          /\ (i \in 1..Len(stream) \/ 3 * current < after(i))
  <2> SUFFICES ASSUME NEW i \in 1..Len(stream')
               PROVE  after(i) \in Nat /\ after(i) <= Horizon'
                     /\ (i \in 1..Len(stream) \/ 3 * current < after(i))
    OBVIOUS
  <2> HIDE DEF after, at
  <2>1. CASE i \in 1..Len(stream)
    BY <1>3, <1>8, <2>1
  <2>2. CASE i = Len(stream) + 1
    BY <1>3, <1>9, <2>2
  <2>3. CASE i = Len(stream) + 2
    BY <1>3, <1>9, <2>3
  <2> QED BY <1>7, <2>1, <2>2, <2>3
<1>12. \A i, j \in 1..Len(stream') : i < j => after(i) < after(j)
  BY <1>3, <1>4, <1>7, <1>8, <1>9, <1>10
<1>13. ASSUME NEW n \in Nat, n <= Horizon, \A i \in 1..Len(stream) : n < at(i)
       PROVE  n <= Horizon' /\ \A i \in 1..Len(stream') : n < after(i)
  <2>1. n <= 3 * current /\ n <= Horizon'
    BY <1>3, <1>13
  <2>2. \A i \in 1..Len(stream) : n < after(i)
    BY <1>8, <1>13
  <2> HIDE DEF after, at
  <2>3. \A i \in 1..Len(stream') : 3 * current < after(i) => n < after(i)
    BY <1>3, <1>11, <2>1
  <2> QED BY <1>11, <2>1, <2>2, <2>3
<1>14. storing # Idle => Place(storing) <= Horizon' /\ \A i \in 1..Len(stream') : Place(storing) < after(i)
  <2>1. storing # Idle => Place(storing) \in Nat /\ Place(storing) <= Horizon
            /\ \A i \in 1..Len(stream) : Place(storing) < at(i)
    BY PlacesType DEF StreamInv
  <2> HIDE DEF after, at
  <2> QED BY <1>13, <2>1
<1>15. \A e \in Spoken : Place(e) <= Horizon' /\ \A i \in 1..Len(stream') : Place(e) < after(i)
  <2>1. \A e \in Spoken : Place(e) \in Nat /\ Place(e) <= Horizon
            /\ \A i \in 1..Len(stream) : Place(e) < at(i)
    BY PlacesType DEF StreamInv, Spoken
  <2> HIDE DEF after, at
  <2> QED BY <1>13, <2>1
<1> QED BY <1>11, <1>12, <1>14, <1>15 DEF StreamInv, Spoken

(* A step keeps the order of what the agent said.                           *)
LEMMA StreamStep == DispatchType /\ StreamInv /\ [Next]_vars => StreamInv'
<1> SUFFICES ASSUME DispatchType /\ StreamInv, [Next]_vars PROVE StreamInv'
  OBVIOUS
<1> USE DEF StreamInv, agentVars, streamVars, handlerVars, dataVars, logVars, Fault
<1>1. CASE Post
  <2>1. stream \in Seq(Said) /\ current \in Nat /\ current + 1 \in Calls
    BY <1>1, BoundsAssumption DEF Post, DispatchType, TypeOK, AgentTypeOK, DataTypeOK, Calls
  <2> DEFINE said == [event |-> "reasoning", call |-> current + 1]
  <2>2. said \in Said /\ Place(said) = 3 * (current + 1)
    BY <2>1 DEF Said, Kinds, Place
  <2>3. stream' = Append(stream, said) /\ Horizon' = 3 * (current + 1) /\ Horizon = 3 * current + 2
    BY <1>1, <2>1 DEF Post, Horizon
  <2> HIDE DEF said
  <2>4. /\ Len(stream') = Len(stream) + 1 /\ Len(stream) \in Nat
        /\ \A i \in 1..Len(stream) : stream'[i] = stream[i]
    BY <2>1, <2>2, <2>3, AppendProperties
  <2>5. stream'[Len(stream) + 1] = said
    BY <2>1, <2>2, <2>3, AppendProperties
  <2>6. \A i \in 1..Len(stream') : i \in 1..Len(stream) \/ i = Len(stream) + 1
    BY <2>4
  <2>7. UNCHANGED <<storing, events>>
    BY <1>1 DEF Post
  <2> DEFINE at(i) == Place(stream[i])
             after(i) == Place(stream'[i])
  <2>8. \A i \in 1..Len(stream) : after(i) = at(i) /\ at(i) \in Nat /\ at(i) <= 3 * current + 2
    BY <2>3, <2>4, PlacesType
  <2>9. after(Len(stream) + 1) = 3 * (current + 1)
    BY <2>2, <2>5
  <2>10. \A i, j \in 1..Len(stream) : i < j => at(i) < at(j)
    OBVIOUS
  <2>11. \A i \in 1..Len(stream') : after(i) \in Nat /\ after(i) <= Horizon'
            /\ (i \in 1..Len(stream) \/ 3 * current + 2 < after(i))
    BY <2>1, <2>3, <2>6, <2>8, <2>9
  <2>12. \A i, j \in 1..Len(stream') : i < j => after(i) < after(j)
    BY <2>1, <2>4, <2>6, <2>8, <2>9, <2>10
  <2>13. ASSUME NEW n \in Nat, n <= Horizon, \A i \in 1..Len(stream) : n < at(i)
         PROVE  n <= Horizon' /\ \A i \in 1..Len(stream') : n < after(i)
    <3>1. n <= 3 * current + 2 /\ n <= Horizon'
      BY <2>1, <2>3, <2>13
    <3>2. \A i \in 1..Len(stream) : n < after(i)
      BY <2>8, <2>13
    <3> HIDE DEF after, at
    <3>3. \A i \in 1..Len(stream') : 3 * current + 2 < after(i) => n < after(i)
      BY <2>1, <2>11, <3>1
    <3> QED BY <2>11, <3>1, <3>2, <3>3
  <2>14. storing # Idle => Place(storing) <= Horizon' /\ \A i \in 1..Len(stream') : Place(storing) < after(i)
    <3>1. storing # Idle => Place(storing) \in Nat /\ Place(storing) <= Horizon
              /\ \A i \in 1..Len(stream) : Place(storing) < at(i)
      BY PlacesType
    <3> HIDE DEF after, at
    <3> QED BY <2>13, <3>1
  <2>15. \A e \in Spoken : Place(e) <= Horizon' /\ \A i \in 1..Len(stream') : Place(e) < after(i)
    <3>1. \A e \in Spoken : Place(e) \in Nat /\ Place(e) <= Horizon
              /\ \A i \in 1..Len(stream) : Place(e) < at(i)
      BY PlacesType DEF Spoken
    <3> HIDE DEF after, at
    <3> QED BY <2>13, <3>1
  <2> QED BY <2>7, <2>11, <2>12, <2>14, <2>15 DEF Spoken
<1>2. CASE GiveUp
  BY <1>2, ToldComesLast DEF GiveUp
<1>3. CASE ReadEvent
  <2>1. stream \in Seq(Said) /\ stream # <<>> /\ stream' = Tail(stream)
    BY <1>3 DEF ReadEvent, DispatchType, TypeOK, AgentTypeOK
  <2>2. Len(stream') = Len(stream) - 1 /\ Len(stream) \in Nat \ {0}
            /\ \A i \in 1..Len(stream') : stream'[i] = stream[i + 1]
    BY <2>1, HeadTailProperties
  <2>3. Place(storing') = Place(stream[1]) /\ storing'.seq = NextEventSeq(events)
    BY <1>3 DEF ReadEvent, Place
  <2>4. UNCHANGED <<current, waiting, events>> /\ storing = Idle
    BY <1>3 DEF ReadEvent
  <2>5. Horizon' = Horizon
    BY <2>4 DEF Horizon
  <2>6. \A e \in events : e.seq < storing'.seq
    BY <2>3, NextSeqIsNew DEF DispatchType
  <2>7. \A i \in 1..Len(stream') : i + 1 \in 1..Len(stream) /\ 1 < i + 1 /\ stream'[i] = stream[i + 1]
    BY <2>2
  <2>8. 1 \in 1..Len(stream)
    BY <2>2
  <2>9. \A i \in 1..Len(stream') : Place(stream'[i]) <= Horizon /\ Place(stream[1]) < Place(stream'[i])
    BY <2>7, <2>8
  <2>10. \A i, j \in 1..Len(stream') : i < j => Place(stream'[i]) < Place(stream'[j])
    <3> SUFFICES ASSUME NEW i \in 1..Len(stream'), NEW j \in 1..Len(stream'), i < j
                 PROVE  Place(stream'[i]) < Place(stream'[j])
      OBVIOUS
    <3>1. i + 1 < j + 1
      OBVIOUS
    <3> QED BY <2>7, <3>1
  <2>11. \A e \in Spoken : /\ \A i \in 1..Len(stream') : Place(e) < Place(stream'[i])
                           /\ Place(e) < Place(stream[1])
    BY <2>7, <2>8
  <2> QED BY <2>3, <2>4, <2>5, <2>6, <2>8, <2>9, <2>10, <2>11 DEF Spoken
<1>4. CASE StoreEvent
  <2>1. UNCHANGED <<current, waiting, stream>> /\ storing' = Idle /\ storing # Idle
    BY <1>4 DEF StoreEvent
  <2>2. Horizon' = Horizon
    BY <2>1 DEF Horizon
  <2>3. CASE events' = events
    BY <2>1, <2>2, <2>3 DEF Spoken
  <2>4. CASE events' = events \cup {ToldRow}
    <3>1. Place(ToldRow) = Place(storing) /\ ToldRow.seq = storing.seq
      BY DEF Place, ToldRow
    <3>2. Spoken' = Spoken \cup {ToldRow}
      BY <2>4 DEF Spoken, ToldRow
    <3>3. \A e \in Spoken' : Place(e) <= Horizon /\ \A i \in 1..Len(stream) : Place(e) < Place(stream[i])
      BY <2>1, <3>1, <3>2
    <3>4. \A d \in Spoken : /\ Place(d) < Place(ToldRow) /\ d.seq < ToldRow.seq
                            /\ Place(d) \in Nat /\ Place(ToldRow) \in Nat
      BY <2>1, <3>1, PlacesType DEF Spoken
    <3>5. \A d, e \in Spoken' : Place(d) < Place(e) => d.seq < e.seq
      <4>1. \A d, e \in Spoken : Place(d) < Place(e) => d.seq < e.seq
        OBVIOUS
      <4>2. \A d \in Spoken : ~(Place(ToldRow) < Place(d))
        BY <3>4
      <4>3. ~(Place(ToldRow) < Place(ToldRow))
        BY <3>1, <2>1, PlacesType
      <4> QED BY <3>2, <3>4, <4>1, <4>2, <4>3
    <3> QED BY <2>1, <2>2, <3>3, <3>5
  <2> QED BY <1>4, <2>3, <2>4 DEF StoreEvent, InsertEvent, logVars
<1>5. ASSUME NEW h \in Handlers, Receive(h) PROVE StreamInv'
  <2>1. UNCHANGED <<current, waiting, stream, storing, events>>
    BY <1>5 DEF Receive
  <2> QED BY <2>1 DEF Horizon, Spoken
<1>6. ASSUME NEW h \in Handlers, ReadOld(h) PROVE StreamInv'
  <2>1. UNCHANGED <<current, waiting, stream, storing, events>>
    BY <1>6 DEF ReadOld
  <2> QED BY <2>1 DEF Horizon, Spoken
<1>7. ASSUME NEW h \in Handlers, Perform(h) PROVE StreamInv'
  <2>1. UNCHANGED <<current, waiting, stream, storing, events>>
    BY <1>7 DEF Perform
  <2> QED BY <2>1 DEF Horizon, Spoken
<1>8. ASSUME NEW h \in Handlers, CreateDiff(h) PROVE StreamInv'
  <2>1. UNCHANGED <<current, waiting, stream, storing, events>>
    BY <1>8 DEF CreateDiff
  <2> QED BY <2>1 DEF Horizon, Spoken
<1>9. ASSUME NEW h \in Handlers, NumberEvent(h) PROVE StreamInv'
  <2>1. UNCHANGED <<current, waiting, stream, storing, events>>
    BY <1>9 DEF NumberEvent
  <2> QED BY <2>1 DEF Horizon, Spoken
<1>10. ASSUME NEW h \in Handlers, LogEvent(h) PROVE StreamInv'
  <2>1. UNCHANGED <<current, waiting, stream, storing>>
    BY <1>10 DEF LogEvent
  <2>2. Spoken' = Spoken
    <3>1. events' = events \/ events' = events \cup {LoggedRow(h)}
      BY <1>10 DEF LogEvent, InsertEvent, logVars, LoggedRow
    <3> QED BY <3>1 DEF Spoken, LoggedRow
  <2> QED BY <2>1, <2>2 DEF Horizon
<1>11. ASSUME NEW h \in Handlers, Reply(h) PROVE StreamInv'
  <2>1. CASE waiting = "yes" /\ h = current
    BY <1>11, <2>1, ToldComesLast DEF Reply
  <2>2. CASE ~(waiting = "yes" /\ h = current)
    <3>1. UNCHANGED <<current, waiting, stream, storing, events>>
      BY <1>11, <2>2 DEF Reply
    <3> QED BY <3>1 DEF Horizon, Spoken
  <2> QED BY <2>1, <2>2
<1>12. CASE UNCHANGED vars
  <2>1. UNCHANGED <<current, waiting, stream, storing, events>>
    BY <1>12 DEF vars
  <2> QED BY <2>1 DEF Horizon, Spoken
<1> QED BY <1>1, <1>2, <1>3, <1>4, <1>5, <1>6, <1>7, <1>8, <1>9, <1>10, <1>11, <1>12 DEF Next, Handle

(* A number that was just read is above those stored and lost.             *)
LEMMA ReadIsAbove ==
  ASSUME DispatchType, LossInv, overlap = "no", NEW who
  PROVE  Above(NextEventSeq(events), who)
<1>1. \A e \in events : e.seq < NextEventSeq(events)
  BY NextSeqIsNew DEF DispatchType
<1>2. \A l \in lost : \E e \in events : e.seq = l.seq
  BY DEF LossInv
<1> QED BY <1>1, <1>2 DEF Above

(* What an INSERT of one writer means for the losses: the row it meets is  *)
(* of the other one.                                                       *)
LEMMA InsertKeepsLosses ==
  ASSUME DispatchType, NumbersUnique, LossInv, overlap = "no", NEW row \in Rows,
         Above(row.seq, row.by), InsertEvent(row)
  PROVE  /\ \A l \in lost' : \E e \in events' : e.seq = l.seq /\ e.by # l.by
         /\ \A l, m \in lost' : l.seq = m.seq => l = m
         /\ \A n, who : Above(n, who) /\ who # row.by =>
              \A e \in events' \cup lost' : e.by = who => e.seq < n
<1> USE DEF Above
<1>0. \A e \in events \cup lost \cup {row} : e \in Rows /\ e.seq \in Nat
  BY DEF DispatchType, TypeOK, DataTypeOK, Rows
<1>1. /\ \A l \in lost : \E e \in events : e.seq = l.seq /\ e.by # l.by
      /\ \A l, m \in lost : l.seq = m.seq => l = m
  BY DEF LossInv
<1>2. CASE events' = events \cup {row} /\ lost' = lost
  BY <1>1, <1>2
<1>3. CASE Clashes(row) /\ lost' = lost \cup {row} /\ events' = events
  <2>1. PICK e \in events : e.seq = row.seq
    BY <1>3 DEF Clashes
  <2>2. e.by # row.by
    BY <1>0, <2>1
  <2>3. \A l \in lost : l.seq # row.seq
    <3> SUFFICES ASSUME NEW l \in lost, l.seq = row.seq PROVE FALSE
      OBVIOUS
    <3>1. PICK d \in events : d.seq = l.seq /\ d.by # l.by
      BY <1>1
    <3>2. d = e
      BY <2>1, <3>1 DEF NumbersUnique
    <3>3. l.by # row.by
      BY <1>0
    <3>4. l.by = row.by
      BY <1>0, <2>2, <3>1, <3>2 DEF Rows
    <3> QED BY <3>3, <3>4
  <2>4. \A l \in lost' : \E d \in events' : d.seq = l.seq /\ d.by # l.by
    BY <1>1, <1>3, <2>1, <2>2
  <2>5. \A l, m \in lost' : l.seq = m.seq => l = m
    BY <1>1, <1>3, <2>3
  <2> QED BY <1>3, <2>4, <2>5
<1>4. CASE UNCHANGED logVars
  BY <1>1, <1>4 DEF logVars
<1> QED BY <1>2, <1>3, <1>4 DEF InsertEvent, logVars

(* A step keeps a number to one row.                                       *)
LEMMA UniqueStep == NumbersUnique /\ [Next]_vars => NumbersUnique'
<1> SUFFICES ASSUME NumbersUnique, [Next]_vars PROVE NumbersUnique'
  OBVIOUS
<1>1. ASSUME NEW row, InsertEvent(row) PROVE NumbersUnique'
  BY <1>1 DEF InsertEvent, Clashes, NumbersUnique, logVars
<1>2. CASE StoreEvent
  BY <1>1, <1>2 DEF StoreEvent
<1>3. ASSUME NEW h \in Handlers, LogEvent(h) PROVE NumbersUnique'
  BY <1>1, <1>3 DEF LogEvent
<1>4. CASE events' = events
  BY <1>4 DEF NumbersUnique
<1>5. ASSUME NEW h \in Handlers, Handle(h), ~LogEvent(h) PROVE events' = events
  BY <1>5 DEF Handle, Receive, ReadOld, Perform, CreateDiff, NumberEvent, Reply, logVars
<1>6. CASE Post \/ GiveUp \/ ReadEvent \/ UNCHANGED vars
  BY <1>4, <1>6 DEF Post, GiveUp, ReadEvent, vars, logVars
<1> QED BY <1>2, <1>3, <1>4, <1>5, <1>6 DEF Next

(* A step keeps the losses apart.                                          *)
LEMMA LossStep == DispatchType /\ ExecutionInv /\ NumbersUnique /\ LossInv /\ [Next]_vars => LossInv'
<1> SUFFICES ASSUME DispatchType, ExecutionInv, NumbersUnique, LossInv, [Next]_vars, overlap' = "no"
             PROVE  LossInv'
  BY DEF LossInv
<1>0. hpc \in [Handlers -> HPCs] /\ seq \in [Handlers -> Nat]
  BY DEF DispatchType, TypeOK, HandlerTypeOK
<1>1. overlap = "no"
  BY DEF Next, Handle, Post, GiveUp, ReadEvent, StoreEvent, Receive, ReadOld, Perform, CreateDiff, NumberEvent,
         LogEvent, Reply, vars
<1>2. \A g, h \in Handlers : Working(g) /\ Working(h) => g = h
  BY <1>1 DEF ExecutionInv
<1>3. CASE UNCHANGED <<storing, events, lost>> /\ \A h \in Handlers :
             hpc'[h] = "logging" => hpc[h] = "logging" /\ seq'[h] = seq[h]
  BY <1>1, <1>3 DEF LossInv, Above
<1>4. CASE Post \/ GiveUp \/ UNCHANGED vars
  BY <1>3, <1>4 DEF Post, GiveUp, vars, streamVars, handlerVars, logVars
<1>5. CASE ReadEvent
  <2>1. storing'.seq = NextEventSeq(events) /\ UNCHANGED <<hpc, seq, events, lost>>
    BY <1>5 DEF ReadEvent, handlerVars, logVars
  <2>2. Above(storing.seq, "orchestrator")'
    BY <1>1, <2>1, ReadIsAbove DEF Above
  <2> QED BY <1>1, <2>1, <2>2 DEF LossInv, Above
<1>6. CASE StoreEvent
  <2>1. storing' = Idle /\ UNCHANGED <<hpc, seq>> /\ InsertEvent(ToldRow) /\ storing # Idle
    BY <1>6 DEF StoreEvent, handlerVars
  <2>2. ToldRow \in Rows /\ ToldRow.seq = storing.seq /\ ToldRow.by = "orchestrator"
    BY <2>1, WrittenRows DEF DispatchType, ToldRow
  <2>3. Above(ToldRow.seq, ToldRow.by)
    BY <1>1, <2>1, <2>2 DEF LossInv
  <2>4. /\ \A l \in lost' : \E e \in events' : e.seq = l.seq /\ e.by # l.by
        /\ \A l, m \in lost' : l.seq = m.seq => l = m
        /\ \A n : Above(n, "handler") =>
             \A e \in events' \cup lost' : e.by = "handler" => e.seq < n
    BY <1>1, <2>1, <2>2, <2>3, InsertKeepsLosses
  <2>5. \A h \in Handlers : hpc'[h] = "logging" =>
           \A e \in events' \cup lost' : e.by = "handler" => e.seq < seq'[h]
    BY <1>1, <2>1, <2>4 DEF LossInv
  <2> QED BY <2>1, <2>4, <2>5 DEF LossInv, Above
<1>7. ASSUME NEW h \in Handlers, NumberEvent(h) PROVE LossInv'
  <2>1. UNCHANGED <<storing, events, lost>> /\ seq' = [seq EXCEPT ![h] = NextEventSeq(events)]
            /\ hpc' = [hpc EXCEPT ![h] = "logging"]
    BY <1>7 DEF NumberEvent, Go, streamVars, logVars
  <2>2. \A e \in events' \cup lost' : e.by = "handler" => e.seq < seq'[h]
    BY <1>0, <1>1, <2>1, ReadIsAbove DEF Above
  <2>3. \A g \in Handlers : g # h => hpc'[g] = hpc[g] /\ seq'[g] = seq[g]
    BY <1>0, <2>1
  <2> QED BY <1>1, <2>1, <2>2, <2>3 DEF LossInv, Above
<1>8. ASSUME NEW h \in Handlers, LogEvent(h) PROVE LossInv'
  <2>1. hpc[h] = "logging" /\ storing' = storing /\ InsertEvent(LoggedRow(h))
            /\ hpc' = [hpc EXCEPT ![h] = "replying"]
    BY <1>8 DEF LogEvent, Go, streamVars, LoggedRow
  <2>2. LoggedRow(h) \in Rows /\ LoggedRow(h).seq = seq[h] /\ LoggedRow(h).by = "handler"
    BY WrittenRows DEF DispatchType, LoggedRow
  <2>3. Above(LoggedRow(h).seq, LoggedRow(h).by)
    BY <1>1, <2>1, <2>2 DEF LossInv
  <2>4. /\ \A l \in lost' : \E e \in events' : e.seq = l.seq /\ e.by # l.by
        /\ \A l, m \in lost' : l.seq = m.seq => l = m
        /\ \A n : Above(n, "orchestrator") =>
             \A e \in events' \cup lost' : e.by = "orchestrator" => e.seq < n
    BY <1>1, <2>1, <2>2, <2>3, InsertKeepsLosses
  <2>5. storing' # Idle =>
           \A e \in events' \cup lost' : e.by = "orchestrator" => e.seq < storing'.seq
    BY <1>1, <2>1, <2>4 DEF LossInv
  <2>6. \A g \in Handlers : hpc'[g] # "logging"
    BY <1>0, <1>2, <2>1 DEF Working
  <2> QED BY <2>1, <2>4, <2>5, <2>6 DEF LossInv, Above
<1>9. ASSUME NEW h \in Handlers, Receive(h) \/ ReadOld(h) \/ Perform(h) \/ CreateDiff(h) \/ Reply(h)
      PROVE  LossInv'
  <2>1. UNCHANGED <<storing, events, lost, seq>>
    BY <1>9 DEF Receive, ReadOld, Perform, CreateDiff, Reply, streamVars, logVars
  <2>2. \E to : to # "logging" /\ hpc' = [hpc EXCEPT ![h] = to]
    BY <1>9 DEF Receive, ReadOld, Perform, CreateDiff, Reply, Go, Begin
  <2>3. \A g \in Handlers : hpc'[g] = "logging" => hpc[g] = "logging"
    BY <1>0, <2>2
  <2> QED BY <1>3, <2>1, <2>3
<1> QED BY <1>4, <1>5, <1>6, <1>7, <1>8, <1>9 DEF Next, Handle
-----------------------------------------------------------------------------
(* The diffs of an execution.                                              *)

(* A set of numbers has a least one.                                       *)
LEMMA LeastNumber ==
  ASSUME NEW T \in SUBSET Nat, T # {}
  PROVE  \E m \in T : \A k \in T : m <= k
<1>1. IsWellFoundedOn(OpToRel(<, Nat), Nat)
  BY NatLessThanWellFounded
<1>2. PICK m \in T : \A k \in T : <<k, m>> \notin OpToRel(<, Nat)
  BY <1>1, WFMin
<1>3. \A k \in T : ~(k < m)
  BY <1>2 DEF OpToRel
<1> QED BY <1>3

(* What the first n diffs of a log lead to, step by step.                  *)
Replays(f, log, n) ==
  f = [k \in 0..n |-> IF k = 0 THEN Original ELSE Apply(f[k - 1], log[k])]

(* Any number of diffs can be replayed.                                    *)
LEMMA ReplayExists ==
  ASSUME NEW log, NEW n \in Nat
  PROVE  \E f : Replays(f, log, n)
<1> DEFINE T == {m \in Nat : ~\E f : Replays(f, log, m)}
<1>1. T = {}
  <2> SUFFICES ASSUME T # {} PROVE FALSE
    OBVIOUS
  <2>1. PICK m \in T : \A k \in T : m <= k
    BY LeastNumber
  <2>2. CASE m = 0
    <3> DEFINE f == [k \in 0..0 |-> IF k = 0 THEN Original ELSE Apply([j \in {} |-> Original], log[k])]
    <3>1. Replays(f, log, 0)
      <4>1. \A k \in 0..0 : k = 0
        OBVIOUS
      <4> QED BY <4>1 DEF Replays
    <3> QED BY <2>1, <2>2, <3>1
  <2>3. CASE m # 0
    <3>1. m - 1 \in Nat /\ m \in Nat
      BY <2>1, <2>3
    <3>2. m - 1 \notin T
      BY <2>1, <3>1
    <3>3. PICK f : Replays(f, log, m - 1)
      BY <3>1, <3>2
    <3> DEFINE g == [k \in 0..m |-> IF k = 0 THEN Original ELSE Apply(f[k - 1], log[k])]
    <3>4. \A k \in 0..(m - 1) : g[k] = f[k]
      BY <3>1, <3>3 DEF Replays
    <3>5. \A k \in 0..m : k # 0 => k - 1 \in 0..(m - 1)
      BY <3>1
    <3>6. \A k \in 0..m : k # 0 => Apply(f[k - 1], log[k]) = Apply(g[k - 1], log[k])
      BY <3>4, <3>5
    <3>7. Replays(g, log, m)
      BY <3>6 DEF Replays
    <3> QED BY <2>1, <3>7
  <2> QED BY <2>2, <2>3
<1> QED BY <1>1

(* Replaying logs that begin in the same way leads to the same files.      *)
LEMMA ReplayUnique ==
  ASSUME NEW a, NEW b, NEW f, NEW g, NEW m \in Nat, NEW n \in Nat, n <= m,
         \A k \in 1..n : a[k] = b[k], Replays(f, a, n), Replays(g, b, m)
  PROVE  f[n] = g[n]
<1> DEFINE T == {k \in 0..n : f[k] # g[k]}
<1>1. T = {}
  <2> SUFFICES ASSUME T # {} PROVE FALSE
    OBVIOUS
  <2>0. T \in SUBSET Nat
    OBVIOUS
  <2>1. PICK k \in T : \A j \in T : k <= j
    BY <2>0, LeastNumber
  <2>2. k \in 0..n /\ k \in 0..m /\ f[k] # g[k]
    BY <2>1
  <2>3. f[k] = (IF k = 0 THEN Original ELSE Apply(f[k - 1], a[k]))
    BY <2>2 DEF Replays
  <2>4. g[k] = (IF k = 0 THEN Original ELSE Apply(g[k - 1], b[k]))
    BY <2>2 DEF Replays
  <2>5. CASE k = 0
    BY <2>2, <2>3, <2>4, <2>5
  <2>6. CASE k # 0
    <3>1. k - 1 \in 0..n /\ k - 1 \notin T
      BY <2>1, <2>2, <2>6
    <3>2. f[k - 1] = g[k - 1] /\ a[k] = b[k]
      BY <2>2, <2>6, <3>1
    <3> QED BY <2>2, <2>3, <2>4, <2>6, <3>2
  <2> QED BY <2>5, <2>6
<1> QED BY <1>1

(* The last of the files that a log leads to.                              *)
LEMMA ReplayedByReplay ==
  ASSUME NEW log, Len(log) \in Nat, NEW f, Replays(f, log, Len(log))
  PROVE  Replayed(log) = f[Len(log)]
<1> DEFINE g == CHOOSE h : Replays(h, log, Len(log))
<1>1. Replays(g, log, Len(log))
  OBVIOUS
<1>2. Replayed(log) = g[Len(log)]
  BY DEF Replayed, Replays
<1> HIDE DEF g
<1> QED BY <1>1, <1>2, ReplayUnique

(* No diff leaves the files of the repository, and one more diff is applied*)
(* to what those before it lead to.                                        *)
LEMMA ReplayedNone == Replayed(<<>>) = Original
<1>1. PICK f : Replays(f, <<>>, 0)
  BY ReplayExists
<1>2. f[0] = Original
  BY <1>1 DEF Replays
<1> QED BY <1>1, <1>2, ReplayedByReplay

LEMMA ReplayedOneMore ==
  ASSUME NEW D, NEW log \in Seq(D), NEW d \in D
  PROVE  Replayed(Append(log, d)) = Apply(Replayed(log), d)
<1> DEFINE more == Append(log, d)
           n == Len(log)
<1>1. /\ n \in Nat /\ Len(more) = n + 1 /\ more[n + 1] = d
      /\ \A k \in 1..n : log[k] = more[k]
  OBVIOUS
<1> HIDE DEF more, n
<1>2. PICK f : Replays(f, log, n)
  BY <1>1, ReplayExists
<1>3. PICK g : Replays(g, more, n + 1)
  <2>1. n + 1 \in Nat
    BY <1>1
  <2> QED BY <2>1, ReplayExists
<1>4. f[n] = g[n]
  BY <1>1, <1>2, <1>3, ReplayUnique
<1>5. g[n + 1] = Apply(g[n], d)
  <2>1. n + 1 \in 0..(n + 1) /\ n + 1 # 0 /\ (n + 1) - 1 = n
    BY <1>1
  <2>2. g[n + 1] = Apply(g[(n + 1) - 1], more[n + 1])
    BY <1>3, <2>1 DEF Replays
  <2> QED BY <1>1, <2>1, <2>2
<1>6. Replayed(log) = f[n]
  BY <1>1, <1>2, ReplayedByReplay DEF n
<1>7. Replayed(more) = g[n + 1]
  BY <1>1, <1>3, ReplayedByReplay
<1> QED BY <1>4, <1>5, <1>6, <1>7 DEF more

(* A step leaves the request of a call that a handler works on alone.      *)
LEMMA RequestStays ==
  ASSUME DispatchType, LogInv, [Next]_vars, NEW h \in Handlers, hpc[h] # "none"
  PROVE  Tool(h)' = Tool(h) /\ Path(h)' = Path(h) /\ Dest(h)' = Dest(h)
<1>1. h \in Calls /\ request[h].tool # "none" /\ h <= current /\ current \in Nat
  BY BoundsAssumption DEF DispatchType, PostedInv, LogInv, Handlers, TypeOK, AgentTypeOK
<1>2. request' = request \/ \E r : request' = [request EXCEPT ![current + 1] = r]
  <2>1. CASE Post
    BY <2>1, PostedCall
  <2>2. CASE ~Post
    BY <2>2 DEF Next, Handle, GiveUp, ReadEvent, StoreEvent, Receive, ReadOld, Perform, CreateDiff, NumberEvent,
                LogEvent, Reply, vars, agentVars
  <2> QED BY <2>1, <2>2
<1>3. request'[h] = request[h]
  <2>1. h # current + 1 /\ h \in Nat
    BY <1>1 DEF Calls
  <2> QED BY <1>2, <2>1, <1>1 DEF DispatchType, TypeOK, AgentTypeOK
<1> QED BY <1>3 DEF Tool, Path, Dest

(* A step keeps the log of the diffs.                                      *)
LEMMA LogStep == DispatchType /\ LogInv /\ [Next]_vars => LogInv'
<1> SUFFICES ASSUME DispatchType, LogInv, [Next]_vars PROVE LogInv'
  OBVIOUS
<1> USE DEF LogInv, agentVars, streamVars, handlerVars, dataVars, logVars
<1>1. CASE Post
  <2>1. PICK tool \in Tools, path \in Files, to \in Files :
           request' = [request EXCEPT ![current + 1] = [tool |-> tool, path |-> path, to |-> to]]
    BY <1>1, PostedCall
  <2>2. current' = current + 1 /\ diffs' = diffs /\ current \in Nat
    BY <1>1, BoundsAssumption DEF Post, DispatchType, TypeOK, AgentTypeOK
  <2>3. \A c \in Calls : c # current + 1 => request'[c] = request[c]
    BY <2>1 DEF DispatchType, TypeOK, AgentTypeOK
  <2>4. \A c \in Calls : c \in Nat
    BY DEF Calls
  <2> QED BY <2>2, <2>3, <2>4
<1>2. ASSUME NEW h \in Handlers, CreateDiff(h) PROVE LogInv'
  <2>1. hpc[h] = "diffing"
    BY <1>2 DEF CreateDiff
  <2>2. DiffOf(h) \in Diffs
    BY <2>1, HandledCall DEF DiffOf, Diffs, DispatchType, TypeOK, HandlerTypeOK
  <2>3. diffs' = Append(diffs, DiffOf(h)) \/ diffs' = diffs
    BY <1>2 DEF CreateDiff, DiffOf
  <2>4. diffs' \in Seq(Diffs)
    BY <2>2, <2>3
  <2> QED BY <1>2, <2>4 DEF CreateDiff
<1>3. CASE UNCHANGED <<current, request, diffs>>
  BY <1>3
<1>4. ASSUME NEW h \in Handlers, Handle(h), ~CreateDiff(h) PROVE UNCHANGED <<current, request, diffs>>
  BY <1>4 DEF Handle, Receive, ReadOld, Perform, NumberEvent, LogEvent, Reply
<1>5. CASE GiveUp \/ ReadEvent \/ StoreEvent \/ UNCHANGED vars
  BY <1>3, <1>5 DEF GiveUp, ReadEvent, StoreEvent, vars
<1> QED BY <1>1, <1>2, <1>3, <1>4, <1>5 DEF Next

(* A step that leaves the files, the diffs and the handlers that write or  *)
(* store a diff alone keeps the invariant.                                 *)
LEMMA DiffKept ==
  ASSUME DispatchType, LogInv, DiffInv, [Next]_vars, UNCHANGED <<files, diffs>>, Clean' => Clean,
         \A h \in Handlers : Working(h)' => Working(h),
         \A h \in Handlers : hpc'[h] = "writing" => hpc[h] = "writing" /\ old'[h] = old[h],
         \A h \in Handlers : hpc'[h] = "diffing" => old'[h] = old[h],
         \A h \in Handlers : (hpc'[h] = "diffing") = (hpc[h] = "diffing")
  PROVE  DiffInv'
<1> SUFFICES ASSUME Clean' PROVE DiffInv'
  BY DEF DiffInv
<1>1. Clean /\ Replayed(diffs)' = Replayed(diffs)
  BY DEF Replayed, Apply
<1>2. \A h \in Handlers : hpc[h] # "none" => Tool(h)' = Tool(h) /\ Path(h)' = Path(h) /\ Dest(h)' = Dest(h)
  BY RequestStays
<1>3. \A h \in Handlers : Working(h)' => Tool(h)' \in AllowedTools
  BY <1>1, <1>2 DEF DiffInv, Working
<1>4. \A h \in Handlers : hpc'[h] = "writing" /\ Tool(h)' = "write_file" => old'[h] = files'[Path(h)']
  BY <1>1, <1>2 DEF DiffInv
<1>5. ASSUME NEW h \in Handlers, hpc'[h] = "diffing"
      PROVE  (Apply(Replayed(diffs), DiffOf(h)) = files)'
  <2>1. hpc[h] = "diffing" /\ old'[h] = old[h]
    BY <1>5
  <2>2. DiffOf(h)' = DiffOf(h)
    BY <1>2, <2>1 DEF DiffOf
  <2>3. Apply(Replayed(diffs), DiffOf(h)) = files
    BY <1>1, <2>1 DEF DiffInv
  <2>4. Apply(Replayed(diffs), DiffOf(h))' = Apply(Replayed(diffs), DiffOf(h))
    BY <1>1, <2>2 DEF Apply
  <2> QED BY <2>3, <2>4
<1>6. (\A h \in Handlers : hpc'[h] # "diffing") => Replayed(diffs)' = files'
  BY <1>1 DEF DiffInv
<1> QED BY <1>3, <1>4, <1>5, <1>6 DEF DiffInv

(* What a tool does to the files is what its diff says.                    *)
LEMMA AfterIsApply ==
  ASSUME NEW h, NEW fs, Tool(h) \in AllowedTools, Tool(h) # "read_file",
         Tool(h) = "write_file" => fs[Path(h)] = old[h]
  PROVE  Apply(fs, DiffOf(h)) = After(h, fs)
<1>1. CASE Tool(h) = "write_file"
  BY <1>1 DEF Apply, DiffOf, After
<1>2. CASE Tool(h) = "create_file"
  BY <1>2 DEF Apply, DiffOf, After
<1>3. CASE Tool(h) = "delete_file"
  BY <1>3 DEF Apply, DiffOf, After
<1>4. CASE Tool(h) = "rename_file"
  BY <1>4 DEF Apply, DiffOf, After
<1> QED BY <1>1, <1>2, <1>3, <1>4 DEF AllowedTools

(* A step keeps the diffs with the files.                                  *)
LEMMA DiffStep == DispatchType /\ ExecutionInv /\ LogInv /\ DiffInv /\ [Next]_vars => DiffInv'
<1> SUFFICES ASSUME DispatchType, ExecutionInv, LogInv, DiffInv, [Next]_vars PROVE DiffInv'
  OBVIOUS
<1> USE DEF agentVars, streamVars, handlerVars, dataVars, logVars
<1> HIDE DEF DiffInv
<1>1. hpc \in [Handlers -> HPCs] /\ old \in [Handlers -> 0..Unwritten]
  BY DEF DispatchType, TypeOK, HandlerTypeOK
<1>2. Clean => \A g, h \in Handlers : Working(g) /\ Working(h) => g = h
  BY DEF ExecutionInv, Clean
<1>3. CASE Post \/ GiveUp \/ ReadEvent \/ StoreEvent \/ UNCHANGED vars
  <2>1. UNCHANGED <<hpc, old, files, diffs, overlap>>
    BY <1>3 DEF Post, GiveUp, ReadEvent, StoreEvent, vars
  <2>2. faults' = 0 => faults = 0
    BY <1>3, TypedFaults DEF Post, GiveUp, ReadEvent, StoreEvent, InsertEvent, vars, Fault
  <2> QED BY <2>1, <2>2, DiffKept DEF Clean, Working
<1>4. ASSUME NEW h \in Handlers, Receive(h) PROVE DiffInv'
  <2> SUFFICES ASSUME Clean' PROVE DiffInv'
    BY DEF DiffInv
  <2>1. Clean /\ \A g \in Handlers : ~Working(g)
    BY <1>4, TypedFaults DEF Receive, Clean, Fault
  <2>2. UNCHANGED <<files, diffs, request, old>>
    BY <1>4 DEF Receive
  <2>3. hpc'[h] \in {"denied"} \/ (hpc'[h] = Begin(h) /\ Tool(h) \in AllowedTools)
    BY <1>1, <1>4 DEF Receive, Go
  <2>4. \A g \in Handlers : g # h => hpc'[g] = hpc[g]
    BY <1>1, <1>4 DEF Receive, Go
  <2>5. hpc'[h] = "writing" => Tool(h) # "write_file"
    BY <2>3 DEF Begin
  <2>6. hpc'[h] # "diffing" /\ \A g \in Handlers : hpc'[g] # "diffing" /\ hpc[g] # "diffing"
    BY <2>1, <2>3, <2>4 DEF Begin, Working
  <2>7. Tool(h)' = Tool(h)
    BY <2>2 DEF Tool
  <2>8. \A g \in Handlers : Working(g)' => g = h /\ Tool(h) \in AllowedTools
    BY <2>1, <2>3, <2>4 DEF Working
  <2>9. \A g \in Handlers : hpc'[g] = "writing" => g = h
    BY <2>1, <2>4 DEF Working
  <2>10. Replayed(diffs)' = files'
    <3>1. Replayed(diffs) = files
      BY <2>1, <2>6 DEF DiffInv
    <3>2. Replayed(diffs)' = Replayed(diffs)
      BY <2>2 DEF Replayed, Apply
    <3> QED BY <2>2, <3>1, <3>2
  <2> QED BY <2>5, <2>6, <2>7, <2>8, <2>9, <2>10 DEF DiffInv
<1>5. ASSUME NEW h \in Handlers, ReadOld(h) PROVE DiffInv'
  <2> SUFFICES ASSUME Clean' PROVE DiffInv'
    BY DEF DiffInv
  <2>1. Clean /\ hpc[h] = "reading" /\ old' = [old EXCEPT ![h] = files[Path(h)]]
    BY <1>5, TypedFaults DEF ReadOld, Clean, Fault
  <2>2. UNCHANGED <<files, diffs, request>> /\ hpc' = [hpc EXCEPT ![h] = "writing"]
    BY <1>5 DEF ReadOld, Go
  <2>3. \A g \in Handlers : Tool(g)' = Tool(g) /\ Path(g)' = Path(g)
    BY <2>2 DEF Tool, Path
  <2>4. \A g \in Handlers : Working(g) => g = h
    BY <1>2, <2>1 DEF Working
  <2>5. \A g \in Handlers : g # h => hpc'[g] = hpc[g] /\ ~Working(g)
    BY <1>1, <2>2, <2>4
  <2>6. hpc'[h] = "writing" /\ old'[h] = files[Path(h)]
    BY <1>1, <2>1, <2>2
  <2>7. Tool(h) \in AllowedTools
    BY <2>1 DEF DiffInv, Working
  <2>8. \A g \in Handlers : hpc'[g] # "diffing" /\ hpc[g] # "diffing"
    BY <2>1, <2>5, <2>6 DEF Working
  <2>9. Replayed(diffs)' = files'
    <3>1. Replayed(diffs) = files
      BY <2>1, <2>8 DEF DiffInv
    <3>2. Replayed(diffs)' = Replayed(diffs)
      BY <2>2 DEF Replayed, Apply
    <3> QED BY <2>2, <3>1, <3>2
  <2>10. \A g \in Handlers : Working(g)' \/ hpc'[g] = "writing" => g = h
    BY <2>5 DEF Working
  <2> QED BY <2>2, <2>3, <2>6, <2>7, <2>8, <2>9, <2>10 DEF DiffInv
<1>6. ASSUME NEW h \in Handlers, Perform(h) PROVE DiffInv'
  <2> SUFFICES ASSUME Clean' PROVE DiffInv'
    BY DEF DiffInv
  <2>1. Clean /\ hpc[h] = "writing"
    BY <1>6, TypedFaults DEF Perform, Clean, Fault
  <2>2. UNCHANGED <<diffs, request, old>>
    BY <1>6 DEF Perform
  <2>3. \/ files' = After(h, files) /\ hpc'[h] = IF Tool(h) = "read_file" THEN "numbering" ELSE "diffing"
        \/ files' = files /\ hpc'[h] = "numbering"
    BY <1>1, <1>6 DEF Perform, Go
  <2>4. \A g \in Handlers : g # h => hpc'[g] = hpc[g]
    BY <1>1, <1>6 DEF Perform, Go
  <2>5. \A g \in Handlers : Working(g) => g = h
    BY <1>2, <2>1 DEF Working
  <2>6. \A g \in Handlers : hpc'[g] \in {"writing", "diffing"} \/ Working(g)' => g = h
    BY <2>4, <2>5 DEF Working
  <2>7. hpc'[h] # "writing"
    BY <2>3
  <2>8. Tool(h) \in AllowedTools /\ (Tool(h) = "write_file" => files[Path(h)] = old[h])
    BY <2>1 DEF DiffInv, Working
  <2>9. Tool(h)' = Tool(h) /\ DiffOf(h)' = DiffOf(h)
    BY <2>2 DEF Tool, Path, Dest, DiffOf
  <2>10. Replayed(diffs) = files
    <3>1. \A g \in Handlers : hpc[g] # "diffing"
      BY <2>1, <2>5 DEF Working
    <3> QED BY <2>1, <3>1 DEF DiffInv
  <2>11. Replayed(diffs)' = Replayed(diffs)
    BY <2>2 DEF Replayed, Apply
  <2>12. hpc'[h] = "diffing" => files' = After(h, files) /\ Tool(h) # "read_file"
    BY <2>3
  <2>13. hpc'[h] = "diffing" => Apply(files, DiffOf(h)) = files'
    BY <2>8, <2>12, AfterIsApply
  <2>14. hpc'[h] = "diffing" => (Apply(Replayed(diffs), DiffOf(h)) = files)'
    <3>1. Apply(Replayed(diffs), DiffOf(h))' = Apply(files, DiffOf(h))
      BY <2>9, <2>10, <2>11 DEF Apply
    <3> QED BY <2>13, <3>1
  <2>15. hpc'[h] # "diffing" => files' = files
    BY <2>3 DEF After
  <2> QED BY <2>6, <2>7, <2>8, <2>9, <2>10, <2>11, <2>14, <2>15 DEF DiffInv
<1>7. ASSUME NEW h \in Handlers, CreateDiff(h) PROVE DiffInv'
  <2> SUFFICES ASSUME Clean' PROVE DiffInv'
    BY DEF DiffInv
  <2>1. Clean /\ hpc[h] = "diffing" /\ diffs' = Append(diffs, DiffOf(h))
    BY <1>7, TypedFaults DEF CreateDiff, Clean, Fault, DiffOf
  <2>2. UNCHANGED <<files, request, old>> /\ hpc' = [hpc EXCEPT ![h] = "numbering"]
    BY <1>7 DEF CreateDiff, Go
  <2>3. \A g \in Handlers : Working(g) => g = h
    BY <1>2, <2>1 DEF Working
  <2>4. hpc'[h] = "numbering" /\ \A g \in Handlers : g # h => hpc'[g] = hpc[g]
    BY <1>1, <2>2
  <2>5. \A g \in Handlers : hpc'[g] # "writing" /\ hpc'[g] # "diffing" /\ (Working(g)' => g = h)
    BY <2>3, <2>4 DEF Working
  <2>6. Tool(h)' \in AllowedTools
    BY <2>1, <2>2 DEF DiffInv, Working, Tool
  <2>7. DiffOf(h) \in Diffs
    BY <2>1, HandledCall DEF DiffOf, Diffs, DispatchType, TypeOK, HandlerTypeOK
  <2>8. Replayed(diffs') = Apply(Replayed(diffs), DiffOf(h))
    BY <2>1, <2>7, ReplayedOneMore DEF LogInv
  <2>9. Replayed(diffs)' = Replayed(diffs')
    BY DEF Replayed, Apply
  <2>10. Replayed(diffs)' = files'
    BY <2>1, <2>2, <2>8, <2>9 DEF DiffInv
  <2> QED BY <2>5, <2>6, <2>10 DEF DiffInv
<1>8. ASSUME NEW h \in Handlers, NumberEvent(h) PROVE DiffInv'
  <2>1. hpc[h] = "numbering" /\ hpc' = [hpc EXCEPT ![h] = "logging"]
    BY <1>8 DEF NumberEvent, Go
  <2>2. UNCHANGED <<old, files, diffs, overlap, faults>>
    BY <1>8 DEF NumberEvent
  <2>3. hpc'[h] = "logging" /\ \A g \in Handlers : g # h => hpc'[g] = hpc[g]
    BY <1>1, <2>1
  <2> QED BY <2>1, <2>2, <2>3, DiffKept DEF Clean, Working
<1>9. ASSUME NEW h \in Handlers, LogEvent(h) PROVE DiffInv'
  <2>1. hpc[h] = "logging" /\ hpc' = [hpc EXCEPT ![h] = "replying"] /\ old' = [old EXCEPT ![h] = Absent]
    BY <1>9 DEF LogEvent, Go
  <2>2. UNCHANGED <<files, diffs, overlap>> /\ (faults' = 0 => faults = 0)
    BY <1>9, TypedFaults DEF LogEvent, InsertEvent, Fault
  <2>3. hpc'[h] = "replying" /\ \A g \in Handlers : g # h => hpc'[g] = hpc[g] /\ old'[g] = old[g]
    BY <1>1, <2>1
  <2> QED BY <2>1, <2>2, <2>3, DiffKept DEF Clean, Working
<1>10. ASSUME NEW h \in Handlers, Reply(h) PROVE DiffInv'
  <2>1. hpc[h] \in {"replying", "denied"} /\ hpc' = [hpc EXCEPT ![h] = "done"]
    BY <1>10 DEF Reply, Go
  <2>2. UNCHANGED <<old, files, diffs, overlap, faults>>
    BY <1>10 DEF Reply
  <2>3. hpc'[h] = "done" /\ \A g \in Handlers : g # h => hpc'[g] = hpc[g]
    BY <1>1, <2>1
  <2> QED BY <2>1, <2>2, <2>3, DiffKept DEF Clean, Working
<1> QED BY <1>3, <1>4, <1>5, <1>6, <1>7, <1>8, <1>9, <1>10 DEF Next, Handle
-----------------------------------------------------------------------------
(* The theorems.                                                           *)

(* The inductive invariant, at every step.                                 *)
LEMMA Invariance == Spec => [](DispatchType /\ ExecutionInv /\ StreamInv /\ NumbersUnique /\ LossInv)
<1>1. Init => DispatchType
  <2>1. Init => AgentTypeOK
    BY BoundsAssumption DEF Init, AgentTypeOK, Calls, Idle
  <2>2. Init => HandlerTypeOK
    BY BoundsAssumption DEF Init, HandlerTypeOK, HPCs, Unwritten, Absent
  <2>3. Init => DataTypeOK
    BY BoundsAssumption DEF Init, DataTypeOK, Original, Unwritten, Absent
  <2>4. Init => PostedInv /\ LastInv
    BY DEF Init, PostedInv, LastInv
  <2> QED BY <2>1, <2>2, <2>3, <2>4 DEF DispatchType, TypeOK
<1>2. Init => ExecutionInv
  BY DEF Init, ExecutionInv, Working
<1>3. Init => StreamInv
  BY DEF Init, StreamInv, Spoken
<1>4. Init => NumbersUnique /\ LossInv
  BY DEF Init, NumbersUnique, LossInv
<1>5. DispatchType /\ ExecutionInv /\ StreamInv /\ NumbersUnique /\ LossInv /\ [Next]_vars
        => (DispatchType /\ ExecutionInv /\ StreamInv /\ NumbersUnique /\ LossInv)'
  BY TypeStep, ExecutionStep, StreamStep, UniqueStep, LossStep
<1> QED BY <1>1, <1>2, <1>3, <1>4, <1>5, PTL DEF Spec

(* Every variable keeps its type.                                          *)
THEOREM TypeCorrect == Spec => []TypeOK
<1>1. DispatchType => TypeOK
  BY DEF DispatchType
<1> QED BY <1>1, Invariance, PTL

(* The orchestrator and the handlers lose at most one event each for a row *)
(* of the other, however their statements interleave and fail.             *)
THEOREM LossesPairOff == Spec => []EachRowRefusesOne
<1>1. LossInv => EachRowRefusesOne
  BY DEF LossInv, EachRowRefusesOne
<1> QED BY <1>1, Invariance, PTL

(* The log keeps the order of the stream, with any number of handlers at   *)
(* work, statements that fail and events that are dropped.                 *)
THEOREM StreamOrderIsKept == Spec => []StreamOrderKept
<1>1. StreamInv => StreamOrderKept
  BY DEF StreamInv, Spoken, StreamOrderKept
<1> QED BY <1>1, Invariance, PTL

(* The invariant of the diffs, on top of the others.                       *)
LEMMA DiffInvariance == Spec => [](LogInv /\ DiffInv)
<1>1. Init => LogInv
  BY DEF Init, LogInv
<1>2. Init => DiffInv
  <2>1. Init => diffs = <<>> /\ files = Original /\ \A h \in Handlers : hpc[h] = "none"
    BY DEF Init
  <2>2. Init => Replayed(diffs) = files
    BY <2>1, ReplayedNone
  <2> QED BY <2>1, <2>2 DEF DiffInv, Working
<1>3. DispatchType /\ ExecutionInv /\ (LogInv /\ DiffInv) /\ [Next]_vars => (LogInv /\ DiffInv)'
  BY LogStep, DiffStep
<1> QED BY <1>1, <1>2, <1>3, Invariance, PTL DEF Spec

(* The diffs lead from the files of the repository to the files there are, *)
(* for any files and any number of calls.                                  *)
THEOREM DiffsLeadToTheFiles == Spec => []DiffsTellTheFiles
<1>1. DiffInv => DiffsTellTheFiles
  BY DEF DiffInv, Clean, DiffsTellTheFiles
<1> QED BY <1>1, DiffInvariance, PTL
=============================================================================
