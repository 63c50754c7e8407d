----------------------------- MODULE Messenger -----------------------------
(***************************************************************************)
(* A command pipe and its two threads: the messenger (CmdMessengerThread   *)
(* of core/device_discovery.py and core/discovery_simulator.py,            *)
(* PackageMessengerThread of core/package_manager.py), which reads lines   *)
(* from a named pipe into a queue, and the thread that takes commands from *)
(* the queue and, on "terminate", stops the messenger through the pipe     *)
(* itself (_terminate_all).                                                *)
(*                                                                         *)
(* The pipe: open for reading and open for writing wait for each other; a  *)
(* write without a reader raises; what is in the pipe when its last end is *)
(* closed is gone.  A writer writes one text and closes.                   *)
(***************************************************************************)
EXTENDS Naturals, Sequences, SequencesExt

CONSTANTS
  Scripts,    \* commands that operators write, each by a shell script: [cmd, nl]
  Stoppers,   \* who calls _terminate_all: "thread", the command thread, and others
  Separator   \* what run splits a line by: "space" or "comma" (which keeps the newline)

Stop == "terminate_messenger_but_you_should_not_do_this_yourself"
Told(p) == [cmd |-> Stop, nl |-> TRUE, by |-> p]    \* what _terminate_all writes

VARIABLES
  reader,     \* the messenger: "none" (yet), "closed", "open" (in open), "read", "lines", "done"
  text,       \* lines it has still to handle
  pipe,       \* what is in the pipe: Seq([cmd, nl])
  writer,     \* [writers -> "idle", "open", "done" or "failed"]
  queue,      \* package_message_queue, cmd_message_queue
  pc,         \* [Stoppers \cup {"main"} -> "get", "stop", "write", "clean_up", ...]
  lost        \* history: what went with the pipe

pipevars == <<reader, text, pipe, writer, queue, pc, lost>>

NoWriter == \A w \in DOMAIN writer : writer[w] # "open"
Cmds(ws) == {ws[i].cmd : i \in DOMAIN ws}

(* The messenger, and where the thread that starts it is.                  *)
PipeInit(messenger, thread) ==
  /\ reader = messenger
  /\ text = <<>>
  /\ pipe = <<>>
  /\ writer = [w \in Scripts \cup {Told(p) : p \in Stoppers} |-> "idle"]
  /\ queue = <<>>
  /\ pc = [p \in Stoppers \cup {"main"} |-> IF p = "thread" THEN thread ELSE "get"]
  /\ lost = {}

(* readlines(): a text that does not end in a newline runs on into the     *)
(* next one.                                                               *)
Lines(ws) ==
  FoldLeft(LAMBDA ls, w : IF ls = <<>> \/ Last(ls).nl
                          THEN Append(ls, [cmds |-> <<w.cmd>>, nl |-> w.nl])
                          ELSE Append(Front(ls), [cmds |-> Append(Last(ls).cmds, w.cmd), nl |-> w.nl]),
           <<>>, ws)

(* line.split() drops the newline, line.split(',') keeps it: the word then *)
(* is another one.                                                         *)
Word_comma(line) == IF Len(line.cmds) = 1 /\ ~line.nl THEN line.cmds[1] ELSE "garbled"

Word(line) ==
  IF Len(line.cmds) = 1 /\ (Separator = "space" \/ ~line.nl) THEN line.cmds[1] ELSE "garbled"
-----------------------------------------------------------------------------
(* Writers of the pipe.                                                    *)

Open(w) ==
  /\ writer[w] # "open"
  /\ reader \in {"open", "read", "lines"}
  /\ writer' = [writer EXCEPT ![w] = "open"]
  /\ reader' = IF reader = "open" THEN "read" ELSE reader

Write(w) ==
  /\ writer[w] = "open"
  /\ IF reader \in {"none", "closed", "done"}
     THEN /\ writer' = [writer EXCEPT ![w] = "failed"]
          /\ lost' = lost \cup {w.cmd} \cup (IF NoWriter' THEN Cmds(pipe) ELSE {})
          /\ pipe' = IF NoWriter' THEN <<>> ELSE pipe
     ELSE /\ writer' = [writer EXCEPT ![w] = "done"]
          /\ pipe' = Append(pipe, w)
          /\ UNCHANGED lost

ScriptOpen(s) == writer[s] = "idle" /\ Open(s) /\ UNCHANGED <<text, pipe, queue, pc, lost>>
ScriptWrite(s) == Write(s) /\ UNCHANGED <<reader, text, queue, pc>>
-----------------------------------------------------------------------------
(* The messenger: PackageMessengerThread.run, CmdMessengerThread.run.      *)

ReaderOpen ==
  /\ reader = "closed"
  /\ reader' = IF NoWriter THEN "open" ELSE "read"
  /\ UNCHANGED <<text, pipe, writer, queue, pc, lost>>

ReadLines ==
  /\ reader = "read"
  /\ NoWriter
  /\ reader' = "lines"
  /\ text' = Lines(pipe)
  /\ pipe' = <<>>
  /\ UNCHANGED <<writer, queue, pc, lost>>

HandleLine ==
  /\ reader = "lines"
  /\ text # <<>>
  /\ IF Word(Head(text)) = Stop
     THEN /\ reader' = "done"
          /\ text' = <<>>
          /\ pipe' = <<>>
          /\ lost' = lost \cup Cmds(pipe)
          /\ UNCHANGED queue
     ELSE /\ text' = Tail(text)
          /\ queue' = Append(queue, Word(Head(text)))
          /\ UNCHANGED <<reader, pipe, lost>>
  /\ UNCHANGED <<writer, pc>>

ReaderClose_end ==
  /\ reader = "lines"
  /\ text = <<>>
  /\ reader' = "done"
  /\ pipe' = <<>>
  /\ lost' = lost \cup Cmds(pipe)
  /\ UNCHANGED <<text, writer, queue, pc>>

ReaderClose ==
  /\ reader = "lines"
  /\ text = <<>>
  /\ reader' = "closed"
  /\ IF NoWriter
     THEN pipe' = <<>> /\ lost' = lost \cup Cmds(pipe)
     ELSE UNCHANGED <<pipe, lost>>
  /\ UNCHANGED <<text, writer, queue, pc>>
-----------------------------------------------------------------------------
(* The command thread and _terminate_all.  The main program puts       *)
(* ["terminate"] into the queue when it is interrupted.                    *)

Interrupt ==
  /\ pc["main"] = "get"
  /\ pc' = [pc EXCEPT !["main"] = "done"]
  /\ queue' = Append(queue, "terminate")
  /\ UNCHANGED <<reader, text, pipe, writer, lost>>

(* _terminate_all: the messenger is stopped if it is there and alive.      *)
Terminate(p) ==
  pc' = [pc EXCEPT ![p] = IF reader \in {"none", "done"} THEN "clean_up" ELSE "stop"]

GetCommand ==
  /\ pc["thread"] = "get"
  /\ queue # <<>>
  /\ queue' = Tail(queue)
  /\ IF Head(queue) = "terminate" THEN Terminate("thread") ELSE UNCHANGED pc
  /\ UNCHANGED <<reader, text, pipe, writer, lost>>

StopOpen(p) ==
  /\ pc[p] = "stop"
  /\ Open(Told(p))
  /\ pc' = [pc EXCEPT ![p] = "write"]
  /\ UNCHANGED <<text, pipe, queue, lost>>

StopWrite(p) ==
  /\ pc[p] = "write"
  /\ Write(Told(p))
  /\ pc' = [pc EXCEPT ![p] = IF writer'[Told(p)] = "failed" THEN "crashed" ELSE "clean_up"]
  /\ UNCHANGED <<reader, text, queue>>

(* The package manager's then unloads the packages, and the thread goes on *)
(* when one of them stays (Discovery has its own clean-up).                *)
CleanUp(p) ==
  /\ pc[p] = "clean_up"
  /\ \E next \in {"get", "done"} : pc' = [pc EXCEPT ![p] = next]
  /\ UNCHANGED <<reader, text, pipe, writer, queue, lost>>

MessengerStep == ReaderOpen \/ ReadLines \/ HandleLine \/ ReaderClose
ScriptStep == \E s \in Scripts : ScriptOpen(s) \/ ScriptWrite(s)
StopStep(p) == StopOpen(p) \/ StopWrite(p)

Init == PipeInit("closed", "get")
Next ==
  \/ MessengerStep \/ ScriptStep
  \/ Interrupt \/ GetCommand
  \/ \E p \in Stoppers : StopStep(p) \/ CleanUp(p)

Spec == Init /\ [][Next]_pipevars

(* The threads run on, and a script that has opened the pipe writes and    *)
(* closes it.                                                              *)
FairSpec ==
  /\ Spec
  /\ WF_pipevars(MessengerStep) /\ WF_pipevars(GetCommand)
  /\ \A p \in Stoppers : WF_pipevars(StopStep(p)) /\ WF_pipevars(CleanUp(p))
  /\ \A s \in Scripts : WF_pipevars(ScriptWrite(s))
-----------------------------------------------------------------------------
(* _terminate_all "should be able to let Liota exit elegantly": the        *)
(* messenger thread it has written to ends, unless the line got lost (it   *)
(* may be written while the messenger, done with reading, still has the    *)
(* pipe open, and goes when it closes it).                                 *)
EndsUnlessLost ==
  \A p \in Stoppers : writer[Told(p)] = "done" ~> reader = "done" \/ Stop \in lost

(* A thread waits for ever in the open of _terminate_all only when the     *)
(* messenger it saw alive has ended since, told to by somebody else.       *)
StopperNotStuck ==
  \A p \in Stoppers :
    pc[p] = "stop" ~> \/ pc[p] # "stop"
                     \/ /\ reader = "done"
                        /\ \E w \in DOMAIN writer : w # Told(p) /\ w.cmd = Stop /\ writer[w] # "idle"
=============================================================================
