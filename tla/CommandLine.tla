------------------------------ MODULE CommandLine ------------------------------
(****************************************************************************)
(* The command loop (src/src/main.cpp) over the transaction manager: the    *)
(* transaction that each command makes, what the loop does when a part of   *)
(* it fails, and what the user may take the answer to mean.                 *)
(*                                                                          *)
(* The program has one thread.  A command is the calls of putRecord,        *)
(* getRecord or deleteRecord it makes; cmd, at and stage say how far it is. *)
(* Calls that return false and change nothing are no actions of             *)
(* TransactionManager, but the loop goes on after them, so they are here.   *)
(* help, stats and a command that is wrong change nothing and are left out. *)
(****************************************************************************)
EXTENDS TransactionManager, BackupFile

CONSTANTS
  main,        \* the thread
  Values,      \* what is put: sequences of characters
  Content,     \* the value of the keys that the database file has at first
  Nothing,     \* the value of a key that is not there
  StrayValues, \* bound: what a scan may find as values of a key that went astray
  NoCommand

\* The calls that a command makes, and the commands.
RecordCalls == [kind : {"put", "get", "delete"}, key : Keys, value : Seq(Characters) \cup {Nothing}]
AllCommands == [name : {"put", "get", "del", "scan", "restore"}, calls : Seq(RecordCalls)]

ASSUME CommandLineAssumption ==
  /\ Threads = {main} /\ ~Sharing
  /\ {"leave", "resize"} \subseteq Ops   \* a command that failed may leave its transaction open
  /\ IsFiniteSet(Keys) /\ Keys \cap (Names \cup Blanks \cup Closers \cup {Quote, Backslash}) = {}
  /\ IsFiniteSet(StrayValues) /\ Values \cup {Content} \cup StrayValues \subseteq Seq(Characters)
  /\ Nothing \notin Seq(Characters)
  /\ NoCommand \notin AllCommands

VARIABLES
  cmd, stage,  \* the command under way, and the step of its transaction it is at
  at, failed,  \* which of its calls is next, and which of them returned false
  shown, saved,\* the value that the last change gave each key, in the cache and in the file:
               \* what getRecord returns of a key that did not go astray
  expected,    \* the values that the answers so far allow for a key
  backup       \* the records in the backup file

loopVars == <<cmd, stage, at, failed>>
dataVars == <<shown, saved>>
cliVars  == <<loopVars, dataVars, expected, backup>>

Idle == pc[main] = "idle"

------------------------------------------------------------------------------
(* What the calls of a command are *)

Call(kind, k, v) == [kind |-> kind, key |-> k, value |-> v]

Command(name, calls) == [name |-> name, calls |-> calls]

\* What scanRecords may find, in any one order.  It takes no locks.  Of a key that
\* went astray it may find no record or several.
Scans ==
  LET known == {[key |-> k, value |-> shown[k]] : k \in {k \in Keys \ astray : shown[k] # Nothing}}
  IN  {SetToSeq(known \cup stray) : stray \in SUBSET [key : astray, value : StrayValues]}

\* Mutant: the search for the next record starts behind the first one.
RestoreCalls_SkipsFirst ==
  LET read == Restored(BackupText(backup))
  IN  [i \in 1 .. Len(read) - 1 |-> Call("put", read[i + 1].key, read[i + 1].value)]

RestoreCalls ==
  LET read == Restored(BackupText(backup))
  IN  [i \in DOMAIN read |-> Call("put", read[i].key, read[i].value)]

Commands ==
       {Command("put", <<Call("put", k, v)>>) : k \in Keys, v \in Values}
  \cup {Command("get", <<Call("get", k, Nothing)>>) : k \in Keys}
  \cup {Command("del", <<Call("delete", k, Nothing)>>) : k \in Keys}
  \cup {Command("scan", <<>>), Command("restore", RestoreCalls)}

\* What the answer says was done: restore counts the puts that returned true, the
\* others say OK.
Vouched(c) ==
  {c.calls[i] : i \in {i \in DOMAIN c.calls : c.calls[i].kind # "get"
                                              /\ (c.name = "restore" => i \notin failed)}}

\* What a command may have done so far when it gets no answer, or an error of
\* commit.
MayHave(k) ==
  IF cmd = NoCommand THEN {}
  ELSE {c.value : c \in {c \in {cmd.calls[i] : i \in (DOMAIN cmd.calls \ failed) \cap (1 .. at)} :
                           c.kind # "get" /\ c.key = k}}

------------------------------------------------------------------------------
(* The loop *)

\* The most entries that a command logs: restore may commit and abort.
Entries(c) == Len(c.calls) + IF c.name = "restore" THEN 3 ELSE 2

\* The prompt takes a command.
Accept ==
  /\ cmd = NoCommand /\ Idle
  /\ nextTxnId \in Txns
  /\ \E c \in Commands :
       /\ \A i \in DOMAIN c.calls : c.calls[i].kind \in Ops
       /\ Len(wal) + Entries(c) <= MaxLog
       /\ cmd' = c
  /\ stage' = "begin" /\ at' = 1 /\ failed' = {}
  /\ UNCHANGED <<vars, dataVars, expected, backup>>

\* backup makes no transaction.
Backup ==
  /\ cmd = NoCommand /\ Idle
  /\ backup' \in Scans
  /\ UNCHANGED <<vars, loopVars, dataVars, expected>>

\* The answer is printed; it tells which values a key may have from now on.
Answer(values) ==
  /\ expected' = values
  /\ cmd' = NoCommand /\ stage' = "prompt" /\ at' = 1 /\ failed' = {}
  /\ UNCHANGED backup

\* "OK", or "n records restored".
Done ==
  Answer([k \in Keys |->
    LET new == {c.value : c \in {c \in Vouched(cmd) : c.key = k}}
    IN  IF new = {} THEN expected[k] ELSE new])

\* "commit failed".
Unsure == Answer([k \in Keys |-> expected[k] \cup MayHave(k)])

\* "put failed" and "delete failed".
NotDone == Answer(expected)

GoOn(next) == stage' = next /\ UNCHANGED <<cmd, expected, backup>>

\* Mutant: a restore without records asks for the first of them.
BeginTransaction_Calls ==
  /\ stage = "begin"
  /\ Begin(main)
  /\ GoOn(IF cmd.name = "scan" THEN "commit" ELSE "call")
  /\ UNCHANGED <<at, failed, dataVars>>

\* beginTransaction.  The loop does not look at the id it returns.
BeginTransaction ==
  /\ stage = "begin"
  /\ Begin(main)
  /\ GoOn(IF cmd.calls = <<>> THEN "commit" ELSE "call")
  /\ UNCHANGED <<at, failed, dataVars>>

\* Mutant: restore tries a put again that failed.
Returned_Again(success) ==
  /\ failed' = IF success THEN failed ELSE failed \cup {at}
  /\ at' = IF success \/ cmd.name # "restore" THEN at + 1 ELSE at
  /\ GoOn(IF cmd.name \in {"put", "del"} /\ ~success THEN "abort"
          ELSE IF at' > Len(cmd.calls) THEN "commit" ELSE "call")

\* Mutant: put and del commit whatever their call returned.
Returned_Ignored(success) ==
  /\ failed' = IF success THEN failed ELSE failed \cup {at}
  /\ at' = at + 1
  /\ GoOn(IF at' > Len(cmd.calls) THEN "commit" ELSE "call")

\* A call returned: put and del give up when it failed, get and restore do not.
Returned(success) ==
  /\ failed' = IF success THEN failed ELSE failed \cup {at}
  /\ at' = at + 1
  /\ GoOn(IF cmd.name \in {"put", "del"} /\ ~success THEN "abort"
          ELSE IF at' > Len(cmd.calls) THEN "commit" ELSE "call")

\* commitTransaction returned: of all commands only restore aborts when it failed.
Committed(success) ==
  IF success THEN Done
  ELSE IF cmd.name = "restore" THEN GoOn("abort") /\ UNCHANGED <<at, failed>>
  ELSE Unsure

Active == mine[main] \in activeTxns

\* A call for a transaction whose BEGIN failed returns false at once.
MakeCall ==
  /\ stage = "call" /\ Idle
  /\ IF Active
     THEN /\ Start(main, cmd.calls[at].kind, mine[main], cmd.calls[at].key)
          /\ UNCHANGED <<loopVars, expected, backup>>
     ELSE Returned(FALSE) /\ UNCHANGED vars
  /\ UNCHANGED dataVars

\* So do a commit and an abort, also when their entry cannot be written.
EndFails == IF Active THEN EndNotLogged(main, mine[main]) ELSE UNCHANGED vars

Commit ==
  /\ stage = "commit" /\ Idle
  /\ \/ /\ CommitLog(main, mine[main])
        /\ IF pc'[main] = "idle" THEN Committed(FALSE)
           ELSE UNCHANGED <<loopVars, expected, backup>>
     \/ EndFails /\ Committed(FALSE)
  /\ UNCHANGED dataVars

\* Mutant: the error is printed and the transaction is left as it is.
AbortCommand_Not ==
  /\ stage = "abort" /\ Idle
  /\ IF cmd.name = "restore" THEN Unsure ELSE NotDone
  /\ UNCHANGED <<vars, dataVars>>

AbortCommand ==
  /\ stage = "abort" /\ Idle
  /\ Abort(main, mine[main]) \/ EndFails
  /\ IF cmd.name = "restore" THEN Unsure ELSE NotDone
  /\ UNCHANGED dataVars

\* The values follow the records, each of which was written once.
Saved == [k \in Keys |-> IF disk'[k] = disk[k] THEN saved[k] ELSE shown[k]]

Stores == pc[main] = "store" /\ pc'[main] = "note"

\* A put of another length than that of the value that is there, and no other, makes
\* its key go astray.
LengthTells(k, v) ==
  shown[k] # Nothing /\ k \notin astray => (k \in astray' <=> Len(v) # Len(shown[k]))

\* The steps of a call, up to the one at which it returns.
Work ==
  /\ ~Idle
  /\ ThreadStep(main)
  /\ Stores => LengthTells(op[main].key, cmd.calls[at].value)
  /\ shown' = IF Stores \/ cache' # cache
              THEN [shown EXCEPT ![op[main].key] = cmd.calls[at].value] ELSE shown
  /\ saved' = Saved
  /\ IF pc'[main] # "idle" THEN UNCHANGED <<loopVars, expected, backup>>
     ELSE IF stage = "commit" THEN Committed(committed' # committed)
     ELSE Returned(pc[main] = "note" \/ cache' # cache)

\* quit, and the end of the input, close the files.  They or a crash end the run;
\* a command that got no answer may or may not have had an effect.
Quit  == cmd = NoCommand /\ Close
EndOfRun ==
  /\ Quit \/ Crash
  /\ saved' = Saved /\ shown' = Saved
  /\ Unsure

------------------------------------------------------------------------------
CLInit ==
  /\ TMInit
  /\ cmd = NoCommand /\ stage = "prompt" /\ at = 1 /\ failed = {}
  /\ shown = [k \in Keys |-> IF k \in Stored THEN Content ELSE Nothing] /\ saved = shown
  /\ expected = [k \in Keys |-> {shown[k]}]
  /\ backup = <<>>

CommandStep == BeginTransaction \/ MakeCall \/ Work \/ Commit \/ AbortCommand

CLNext == Accept \/ Backup \/ CommandStep \/ EndOfRun

\* The program's only thread goes on as long as it can.
CLSpec == CLInit /\ [][CLNext]_<<vars, cliVars>> /\ WF_<<vars, cliVars>>(CommandStep)

------------------------------------------------------------------------------
(* Correctness *)

\* The loop's variables have their types, and a command is where its stage says.
CLTypeOK ==
  /\ stage \in {"prompt", "begin", "call", "commit", "abort"}
  /\ cmd = NoCommand <=> stage = "prompt"
  /\ stage = "prompt" => Idle
  /\ stage \in {"call", "commit"} => at \in 1 .. Len(cmd.calls) + 1
  /\ stage = "call" => at <= Len(cmd.calls)
  /\ \A k \in Keys : cache[k].present <=> shown[k] # Nothing
  /\ \A k \in Keys : disk[k].present <=> saved[k] # Nothing

\* What the answers said stays so, in the cache and in the file, through failures,
\* crashes and restarts: after OK the new value, after "put failed" the old one, and
\* one of the two only after "commit failed" and after a command that got no answer
\* (main.cpp:188-204, 487-499).  This is so of the keys that did not go astray: a delete,
\* or a put of another length, may make any record of its page unreadable
\* (storage.cpp:320-324, 501, 685-688), whatever the answers said of it.
Promises ==
  \A k \in Keys \ astray : {shown[k], saved[k]} \subseteq expected[k] \cup MayHave(k)

\* A command leaves nothing behind but what an I/O failure made it leave: at the
\* prompt every transaction still open stands for a BEGIN, COMMIT, ABORT or flush
\* that failed, and what is locked is locked by one of them (main.cpp:190-197,
\* 228, 243-250, 487-496).
CleanPrompt ==
  cmd = NoCommand =>
    /\ Cardinality(activeTxns) <= failures
    /\ \A t \in Txns : txnLocks[t] # {} => t \in activeTxns

\* Every command is answered, unless its put found no room or it waits for a lock
\* that an earlier command left behind (storage.cpp:292; main.cpp:190-197).  It
\* never waits for a lock of its own.
WaitsForEarlier ==
  /\ Waiting(main)
  /\ \E t \in activeTxns \ {mine[main]} : call[main].key \in txnLocks[t]

Answered == cmd # NoCommand ~> cmd = NoCommand \/ pc[main] = "hung" \/ WaitsForEarlier

\* A restore that reports every record as restored gives each record of the
\* backup file its value back, in the cache and in the file, if the value is one
\* that the format can hold and the key did not go astray, whatever the records beside
\* it and whatever was put since (main.cpp:281-367, 394-486; USAGE_GUIDE.md:108-115,
\* 301-313).  Where the restored value has another length than the one that is there,
\* or anything was deleted, other keys of the page may be lost (storage.cpp:685-688).
RestoreBringsBack ==
  [][cmd # NoCommand /\ committed' # committed /\ cmd.name = "restore" /\ failed = {} =>
       \A i \in DOMAIN backup :
         LET r == backup[i]
         IN  Plain(r.value) /\ r.key \notin astray' =>
               shown'[r.key] = r.value /\ saved'[r.key] = r.value
    ]_<<vars, cliVars>>

================================================================================
