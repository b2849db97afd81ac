----------------------------- MODULE ToolDispatch -----------------------------
(***************************************************************************)
(* The tool calls of one execution: the agent makes them one after the     *)
(* other, each with a new id and once, a handler of its own works on each, *)
(* and the orchestrator stores what the agent says in its stream, all of   *)
(* them in one event log.  A call may take longer than the agent waits for *)
(* it, so that handlers overlap.  The content of a file is the number of   *)
(* the call that wrote it.  Nothing goes on with an execution after a      *)
(* restart: a crash only ends a behaviour.                                 *)
(***************************************************************************)
EXTENDS Naturals, FiniteSets, Sequences

CONSTANTS
  Files,         \* paths in the workspace
  Present,       \* those the repository has
  MaxCalls,      \* bound: calls of the agent
  MaxMishaps     \* bound: calls the agent gives up on, failures of a
                 \*        statement or of the container

ASSUME FilesAssumption  == IsFiniteSet(Files) /\ Present \subseteq Files
ASSUME BoundsAssumption ==
  /\ MaxCalls \in Nat \ {0}
  /\ MaxMishaps \in Nat

Calls    == 1..MaxCalls
Handlers == Calls       \* each call has one

\* read_file stands for the tools that change nothing
AllowedTools == {"read_file", "write_file", "create_file", "delete_file", "rename_file"}
Tools        == AllowedTools \cup {"shell"}
Absent       == 0
Unwritten    == MaxCalls + 1
Original     == [f \in Files |-> IF f \in Present THEN Unwritten ELSE Absent]

VARIABLES
  current,  \* number of the agent's last call
  request,  \* [Calls -> tool, path and new path of the call]
  waiting,  \* whether the agent waits for the reply to its last call
  stream,   \* events of the agent that the orchestrator has not read
  storing,  \* event the orchestrator stores, and the number it read for it
  hpc,      \* [Handlers -> how far the handler is]
  old,      \* [Handlers -> content before the write]
  seq,      \* [Handlers -> number read for the event]
  files,    \* [Files -> content]
  diffs,    \* code_diffs, in the order of their insertion
  events,   \* execution_events
  lost,     \* history: events that were refused, and dropped
  overlap,  \* history: whether two handlers worked at the same time
  timeouts, \* calls the agent gave up on
  faults    \* failures so far

agentVars   == <<current, request, waiting, timeouts>>
streamVars  == <<stream, storing>>
handlerVars == <<hpc, old, seq>>
dataVars    == <<files, diffs>>
logVars     == <<events, lost>>
vars == <<agentVars, streamVars, handlerVars, dataVars, logVars, overlap, faults>>

HPCs == {"none", "reading", "writing", "diffing", "numbering",
         "logging", "replying", "denied", "done"}
Idle == [event |-> "none", call |-> 0, seq |-> 0]

Mishap == faults + timeouts < MaxMishaps
Fault  == Mishap /\ faults' = faults + 1

Init ==
  /\ current = 0 /\ waiting = "no" /\ timeouts = 0
  /\ request = [c \in Calls |-> [tool |-> "none"]]
  /\ stream = <<>> /\ storing = Idle
  /\ hpc = [h \in Handlers |-> "none"] /\ old = [h \in Handlers |-> Absent]
  /\ seq = [h \in Handlers |-> 0]
  /\ files = Original /\ diffs = <<>>
  /\ events = {} /\ lost = {} /\ overlap = "no" /\ faults = 0

-----------------------------------------------------------------------------
(* The agent.                                                              *)

(* It tells its reasoning in its stream and posts a call, once, with an id *)
(* of its own; what it did it tells when the call is over, with new ids.   *)
Post ==
  /\ waiting = "no" /\ current < MaxCalls
  /\ current' = current + 1 /\ waiting' = "yes"
  /\ \E tool \in Tools, path, to \in Files :
       /\ (tool = "rename_file") = (path # to)
       /\ tool \in {"read_file", "shell"} => path \in Present
       /\ request' = [request EXCEPT ![current + 1] = [tool |-> tool, path |-> path, to |-> to]]
  /\ stream' = Append(stream, [event |-> "reasoning", call |-> current + 1])
  /\ UNCHANGED <<timeouts, storing, handlerVars, dataVars, logVars, overlap, faults>>

Told == <<[event |-> "tool_call", call |-> current], [event |-> "tool_result", call |-> current]>>

(* After 120 s without a reply the call has failed for the agent.          *)
GiveUp ==
  /\ waiting = "yes" /\ Mishap
  /\ waiting' = "no" /\ timeouts' = timeouts + 1
  /\ stream' = stream \o Told
  /\ UNCHANGED <<current, request, storing, handlerVars, dataVars, logVars, overlap, faults>>
-----------------------------------------------------------------------------
(* The event log.                                                          *)

(* Faulty variant: the number of the last event, not the one after it.     *)
FaultyNextEventSeq(log) ==
  IF log = {} THEN 1 ELSE CHOOSE n \in {e.seq : e \in log} : \A e \in log : e.seq <= n

(* nextEventSeq: a statement of its own.                                   *)
NextEventSeq(log) ==
  IF log = {} THEN 1 ELSE 1 + CHOOSE n \in {e.seq : e \in log} : \A e \in log : e.seq <= n

Clashes(row) == \E e \in events : e.seq = row.seq

(* The INSERT of AppendEvent: a number is stored once in an execution, and *)
(* ON CONFLICT is for the ids of calls, which never repeat.  The writers   *)
(* drop the error.                                                         *)
InsertEvent(row) ==
  \/ ~Clashes(row) /\ events' = events \cup {row} /\ UNCHANGED <<lost, faults>>
  \/ Clashes(row) /\ lost' = lost \cup {row} /\ UNCHANGED <<events, faults>>
  \/ Fault /\ UNCHANGED logVars

(* The orchestrator reads the next event of the stream and its number.     *)
ReadEvent ==
  /\ storing = Idle /\ stream # <<>>
  /\ stream' = Tail(stream)
  /\ storing' = [event |-> Head(stream).event, call |-> Head(stream).call, seq |-> NextEventSeq(events)]
  /\ UNCHANGED <<agentVars, handlerVars, dataVars, logVars, overlap, faults>>

ToldRow == [by |-> "orchestrator", event |-> storing.event, call |-> storing.call, seq |-> storing.seq]

(* Faulty variant: an event that was refused is tried again after those    *)
(* that wait in the stream.                                                *)
FaultyStoreEvent ==
  /\ storing # Idle /\ storing' = Idle
  /\ IF Clashes(ToldRow)
       THEN stream' = Append(stream, [event |-> storing.event, call |-> storing.call])
            /\ UNCHANGED <<logVars, faults>>
       ELSE InsertEvent(ToldRow) /\ UNCHANGED stream
  /\ UNCHANGED <<agentVars, handlerVars, dataVars, overlap>>

(* If this statement fails, or the one before, the event is dropped.       *)
StoreEvent ==
  /\ storing # Idle /\ storing' = Idle
  /\ InsertEvent(ToldRow)
  /\ UNCHANGED <<agentVars, stream, handlerVars, dataVars, overlap>>
-----------------------------------------------------------------------------
(* A handler, from the request to its reply.                               *)
Tool(h) == request[h].tool
Path(h) == request[h].path
Dest(h) == request[h].to

Working(h) == hpc[h] \in {"reading", "writing", "diffing", "numbering", "logging"}
Go(h, to)  == hpc' = [hpc EXCEPT ![h] = to]

(* What the tool of an allowed call does first.                            *)
Begin(h) == IF Tool(h) = "write_file" THEN "reading" ELSE "writing"

(* A request arrives.  No row has its id, and so the look-up of an earlier *)
(* result finds none; a call against the policy is denied.                 *)
Receive(h) ==
  /\ hpc[h] = "none" /\ Tool(h) # "none"
  /\ Go(h, IF Tool(h) \notin AllowedTools THEN "denied" ELSE Begin(h))
  /\ overlap' = IF \E g \in Handlers : Working(g) THEN "yes" ELSE overlap
  /\ UNCHANGED <<agentVars, streamVars, old, seq, dataVars, logVars, faults>>

(* write_file reads the content for its diff, and has none if that fails.  *)
ReadOld(h) ==
  /\ hpc[h] = "reading"
  /\ (old' = [old EXCEPT ![h] = files[Path(h)]] /\ UNCHANGED faults) \/ (Fault /\ UNCHANGED old)
  /\ Go(h, "writing")
  /\ UNCHANGED <<agentVars, streamVars, seq, dataVars, logVars, overlap>>

(* What the tool leaves of the files, and whether it succeeds.             *)
After(h, fs) ==
  CASE Tool(h) \in {"write_file", "create_file"} -> [fs EXCEPT ![Path(h)] = h]
    [] Tool(h) = "delete_file" -> [fs EXCEPT ![Path(h)] = Absent]
    [] Tool(h) = "rename_file" -> [fs EXCEPT ![Dest(h)] = fs[Path(h)], ![Path(h)] = Absent]
    [] OTHER -> fs
Possible(h, fs) == Tool(h) \in {"rename_file", "read_file"} => fs[Path(h)] # Absent

(* A tool that fails leaves the files alone and stores no diff.            *)
Perform(h) ==
  /\ hpc[h] = "writing"
  /\ \/ /\ Possible(h, files) /\ files' = After(h, files)
        /\ Go(h, IF Tool(h) = "read_file" THEN "numbering" ELSE "diffing") /\ UNCHANGED faults
     \/ ~Possible(h, files) /\ Go(h, "numbering") /\ UNCHANGED <<files, faults>>
     \/ Fault /\ Go(h, "numbering") /\ UNCHANGED files
  /\ UNCHANGED <<agentVars, streamVars, old, seq, diffs, logVars, overlap>>

(* Faulty variant: the diff of a rename is stored under its old path.      *)
FaultyCreateDiff(h) ==
  /\ hpc[h] = "diffing"
  /\ diffs' = Append(diffs, [tool |-> Tool(h), path |-> Path(h), to |-> Path(h),
                             old |-> old[h], new |-> h])
  /\ Go(h, "numbering")
  /\ UNCHANGED <<agentVars, streamVars, old, seq, files, logVars, overlap, faults>>

(* The diff goes by what the handler read; its error is dropped.           *)
CreateDiff(h) ==
  /\ hpc[h] = "diffing"
  /\ \/ diffs' = Append(diffs, [tool |-> Tool(h), path |-> Path(h), to |-> Dest(h),
                                old |-> old[h], new |-> h])
        /\ UNCHANGED faults
     \/ Fault /\ UNCHANGED diffs
  /\ Go(h, "numbering")
  /\ UNCHANGED <<agentVars, streamVars, old, seq, files, logVars, overlap>>

(* AppendEvent: the two statements of it.                                  *)
NumberEvent(h) ==
  /\ hpc[h] = "numbering"
  /\ seq' = [seq EXCEPT ![h] = NextEventSeq(events)] /\ Go(h, "logging")
  /\ UNCHANGED <<agentVars, streamVars, old, dataVars, logVars, overlap, faults>>

(* Its error is dropped, of whichever statement.                           *)
LogEvent(h) ==
  /\ hpc[h] = "logging"
  /\ InsertEvent([by |-> "handler", event |-> "tool_result", call |-> h, seq |-> seq[h]])
  /\ Go(h, "replying")
  /\ old' = [old EXCEPT ![h] = Absent] /\ seq' = [seq EXCEPT ![h] = 0]
  /\ UNCHANGED <<agentVars, streamVars, dataVars, overlap>>

(* The agent takes the reply to the call it waits for.                     *)
Reply(h) ==
  /\ hpc[h] \in {"replying", "denied"}
  /\ Go(h, "done")
  /\ IF waiting = "yes" /\ h = current
       THEN waiting' = "no" /\ stream' = stream \o Told
       ELSE UNCHANGED <<waiting, stream>>
  /\ UNCHANGED <<current, request, timeouts, storing, old, seq, dataVars, logVars, overlap, faults>>
-----------------------------------------------------------------------------
Handle(h) ==
  \/ Receive(h) \/ ReadOld(h) \/ Perform(h)
  \/ CreateDiff(h) \/ NumberEvent(h) \/ LogEvent(h) \/ Reply(h)

Next == Post \/ GiveUp \/ ReadEvent \/ StoreEvent \/ \E h \in Handlers : Handle(h)

Spec == Init /\ [][Next]_vars
-----------------------------------------------------------------------------
Kinds == {"reasoning", "tool_call", "tool_result"}
Said  == [event : Kinds, call : Calls]
Rows  == [by : {"orchestrator", "handler"}, event : Kinds, call : Calls, seq : Nat]

AgentTypeOK ==
  /\ current \in 0..MaxCalls /\ waiting \in {"yes", "no"} /\ (waiting = "yes" => current > 0)
  /\ request \in [Calls -> [tool : {"none"}] \cup [tool : Tools, path : Files, to : Files]]
  /\ stream \in Seq(Said) /\ (storing = Idle \/ storing \in [event : Kinds, call : Calls, seq : Nat])

HandlerTypeOK ==
  /\ hpc \in [Handlers -> HPCs]
  /\ old \in [Handlers -> 0..Unwritten] /\ seq \in [Handlers -> Nat]

DataTypeOK ==
  /\ files \in [Files -> 0..Unwritten] /\ events \subseteq Rows /\ lost \subseteq Rows
  /\ overlap \in {"yes", "no"} /\ timeouts \in Nat /\ faults \in Nat

TypeOK == AgentTypeOK /\ HandlerTypeOK /\ DataTypeOK

(* The price of numbering an event in one statement and storing it in      *)
(* another is bounded: a row of one writer, the orchestrator or the        *)
(* handlers, refuses at most one event, and one of the other writer; no    *)
(* writer loses an event to its own, so of what is written at least half   *)
(* is stored.  Handlers that overlap are more than two writers.            *)
EachRowRefusesOne ==
  overlap = "no" =>
    /\ \A l \in lost : \E e \in events : e.seq = l.seq /\ e.by # l.by
    /\ \A l, m \in lost : l.seq = m.seq => l = m

(* The place of an event in what the agent says.                           *)
Place(e) == 3 * e.call + CASE e.event = "reasoning" -> 0 [] e.event = "tool_call" -> 1 [] OTHER -> 2

(* The log keeps the order in which the agent spoke, whatever the handlers *)
(* write into it meanwhile: the number of an event of the stream is above  *)
(* those of the events before it.                                          *)
StreamOrderKept ==
  \A d, e \in events :
    d.by = "orchestrator" /\ e.by = "orchestrator" /\ Place(d) < Place(e) => d.seq < e.seq

(* One diff applied to the files, "broken" if it starts from another       *)
(* content than the files have.                                            *)
Apply(fs, d) ==
  CASE d.tool = "write_file" ->
         IF fs[d.path] = d.old THEN [fs EXCEPT ![d.path] = d.new] ELSE [f \in Files |-> MaxCalls + 2]
    [] d.tool = "create_file" -> [fs EXCEPT ![d.path] = d.new]
    [] d.tool = "delete_file" -> [fs EXCEPT ![d.path] = Absent]
    [] OTHER -> [fs EXCEPT ![d.to] = fs[d.path], ![d.path] = Absent]

(* The files that the diffs of a log lead to, in their order.              *)
Replayed(log) ==
  LET after[n \in 0..Len(log)] == IF n = 0 THEN Original ELSE Apply(after[n - 1], log[n])
  IN  after[Len(log)]

(* The diffs that are shown for an execution are the changes it made: they *)
(* lead from the files of the repository to the files there are, each from *)
(* the content the one before it left, unless handlers overlap or a        *)
(* statement fails.                                                        *)
DiffsTellTheFiles ==
  faults = 0 /\ overlap = "no" /\ (\A h \in Handlers : hpc[h] # "diffing")
    => Replayed(diffs) = files
=============================================================================
