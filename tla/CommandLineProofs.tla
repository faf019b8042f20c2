--------------------------- MODULE CommandLineProofs ---------------------------
(****************************************************************************)
(* The command loop is a client of the transaction manager like any other:  *)
(* what it does is what TransactionManager allows (CommandsAreTransactions),*)
(* so all that is proved of the transaction manager holds of the program.   *)
(* On that rests what its answers mean: Promises and CleanPrompt.           *)
(****************************************************************************)
EXTENDS CommandLine, TransactionManagerProofs, BackupFileProofs

\* The names of tuples of variables are expanded everywhere.
USE DEF txnVars, walVars, storeVars, threadVars, ended, accesses, loopVars, dataVars, cliVars

------------------------------------------------------------------------------
(* What a command and a backup may be *)

\* A command's calls fit it.
Proper(c) ==
  /\ c \in AllCommands
  /\ c.name \in {"put", "get", "del"} => DOMAIN c.calls = {1}
  /\ \A i \in DOMAIN c.calls :
       /\ c.calls[i].kind = "put" => c.calls[i].value # Nothing
       /\ c.calls[i].kind = "delete" => c.calls[i].value = Nothing /\ c.name = "del"
       /\ c.name \in {"get", "scan"} => c.calls[i].kind = "get"

\* A backup has keys with values.
ProperBackup == backup \in Seq([key : Keys, value : Seq(Characters)])

\* The value of a key, where it is one that a record can have.
CellsOK ==
  /\ shown \in [Keys -> Seq(Characters) \cup {Nothing}]
  /\ saved \in [Keys -> Seq(Characters) \cup {Nothing}]
  /\ \A k \in Keys : cache[k].present <=> shown[k] # Nothing
  /\ \A k \in Keys : disk[k].present <=> saved[k] # Nothing

------------------------------------------------------------------------------
(* Where the loop is *)

\* The stages of a command, and what the thread is in the middle of in each.
Loop ==
  /\ stage \in {"prompt", "begin", "call", "commit", "abort"}
  /\ cmd = NoCommand <=> stage = "prompt"
  /\ cmd # NoCommand => Proper(cmd)
  /\ stage \in {"prompt", "begin", "abort"} => Idle
  /\ stage \in {"prompt", "begin"} => at = 1 /\ failed = {}
  /\ at \in Nat /\ \A i \in failed : i \in Nat \ {0} /\ i < at
  /\ stage = "call" => at \in DOMAIN cmd.calls
  /\ stage = "call" /\ ~Idle =>
       /\ InOperation(main)
       /\ op[main] = [kind |-> cmd.calls[at].kind, txn |-> mine[main], key |-> cmd.calls[at].key]
  /\ stage = "commit" => /\ at = Len(cmd.calls) + 1
                         /\ cmd.name \in {"put", "del"} => failed = {}
  /\ stage = "commit" /\ ~Idle => Committing(main)
  /\ stage = "abort" => /\ cmd.name \in {"put", "del", "restore"}
                        /\ cmd.name \in {"put", "del"} => failed = DOMAIN cmd.calls

\* What is known of the transaction manager.
Manager ==
  /\ TMTypeOK /\ Control /\ Ids /\ OwnTxns /\ CallIsOp /\ OnlyLateDeletes /\ Ends /\ Clean

\* The program has one thread, which shares no transaction.
LEMMA TheThread == Threads = {main} /\ ~Sharing /\ EndsAlone
BY CommandLineAssumption DEF EndsAlone

\* The program's only thread has the mutex only while it commits.
LEMMA MutexWhenIdle ==
  ASSUME TMTypeOK, Control, Idle
  PROVE  MutexFree
BY TheThread DEF TMTypeOK, Control, Committing, Idle, MutexFree

\* A command is not what stands for none.
LEMMA NotACommand == ASSUME NEW c, Proper(c) PROVE c # NoCommand
BY CommandLineAssumption DEF Proper

\* The calls of a command have their types.
LEMMA CallType ==
  ASSUME NEW c, Proper(c), NEW i \in DOMAIN c.calls
  PROVE  /\ c.calls[i] \in RecordCalls
         /\ c.calls[i].kind \in {"put", "get", "delete"} /\ c.calls[i].key \in Keys
         /\ c.calls[i].value \in Seq(Characters) \cup {Nothing}
         /\ Len(c.calls) \in Nat /\ DOMAIN c.calls = 1 .. Len(c.calls)
<1>1. c.calls \in Seq(RecordCalls)
  BY DEF Proper, AllCommands
<1>2. c.calls[i] \in RecordCalls /\ Len(c.calls) \in Nat /\ DOMAIN c.calls = 1 .. Len(c.calls)
  BY <1>1
<1> QED
  BY <1>2 DEF RecordCalls

\* A command makes finitely many calls, one after the other.
LEMMA LengthType ==
  ASSUME NEW c, Proper(c)
  PROVE  Len(c.calls) \in Nat /\ DOMAIN c.calls = 1 .. Len(c.calls)
<1>1. c.calls \in Seq(RecordCalls)
  BY DEF Proper, AllCommands
<1> QED
  BY <1>1

------------------------------------------------------------------------------
(* The loop takes the steps of a client of the transaction manager *)

\* Each step of the loop is one of the manager's, or leaves the manager alone.
LEMMA CommandIsClientStep ==
  ASSUME Manager, Loop, [CLNext]_<<vars, cliVars>>
  PROVE  [TMNext]_vars
<1>1. CASE UNCHANGED <<vars, cliVars>>
  BY <1>1
<1>2. CASE Accept \/ Backup
  BY <1>2 DEF Accept, Backup
<1>3. CASE EndOfRun
  BY <1>3 DEF EndOfRun, Quit, TMNext
<1>4. CASE BeginTransaction
  <2>1. ThreadStep(main)
    BY <1>4, CommandLineAssumption DEF BeginTransaction, ThreadStep, Begin
  <2> QED
    BY <2>1, TheThread DEF TMNext
<1>t. Active => mine[main] \in Txns
  BY DEF Active, Manager, TMTypeOK
<1>5. CASE MakeCall
  <2>1. CASE Active
    <3>1. /\ Start(main, cmd.calls[at].kind, mine[main], cmd.calls[at].key)
          /\ Proper(cmd) /\ at \in DOMAIN cmd.calls
      BY <1>5, <2>1 DEF MakeCall, Loop
    <3>2. ThreadStep(main)
      BY <1>t, <2>1, <3>1, CallType DEF ThreadStep
    <3> QED
      BY <3>2, TheThread DEF TMNext
  <2>2. CASE ~Active
    BY <1>5, <2>2 DEF MakeCall
  <2> QED
    BY <2>1, <2>2
<1>6. CASE Work
  BY <1>6, TheThread DEF Work, TMNext
<1>7. CASE Commit \/ AbortCommand
  <2>1. \/ CommitLog(main, mine[main]) /\ Active
        \/ Abort(main, mine[main]) /\ Active
        \/ EndNotLogged(main, mine[main]) /\ Active
        \/ UNCHANGED vars
    BY <1>7 DEF Commit, AbortCommand, EndFails, Active, CommitLog, Abort
  <2>2. ThreadStep(main) \/ UNCHANGED vars
    BY <1>t, <2>1 DEF ThreadStep
  <2> QED
    BY <2>2, TheThread DEF TMNext
<1> QED
  BY <1>1, <1>2, <1>3, <1>4, <1>5, <1>6, <1>7 DEF CLNext, CommandStep

------------------------------------------------------------------------------
(* Every command of the prompt is one that Loop allows *)

\* The calls of put, get and del.
LEMMA OneCall ==
  ASSUME NEW name \in {"put", "get", "del"}, NEW kind \in {"put", "get", "delete"},
         NEW k \in Keys, NEW v \in Seq(Characters) \cup {Nothing},
         kind = "put" => v # Nothing, kind = "delete" => v = Nothing /\ name = "del",
         name = "get" => kind = "get"
  PROVE  Proper(Command(name, <<Call(kind, k, v)>>))
<1> DEFINE calls == <<Call(kind, k, v)>>
<1>1. Call(kind, k, v) \in RecordCalls
  BY DEF Call, RecordCalls
<1>2. calls \in Seq(RecordCalls) /\ DOMAIN calls = {1} /\ calls[1] = Call(kind, k, v)
  BY <1>1
<1> HIDE DEF calls
<1>3. Command(name, calls) \in AllCommands
  BY <1>2 DEF Command, AllCommands
<1>4. Command(name, calls).calls = calls /\ Command(name, calls).name = name
  BY DEF Command
<1>5. calls[1].kind = kind /\ calls[1].value = v
  BY <1>2 DEF Call
<1> QED
  BY <1>2, <1>3, <1>4, <1>5 DEF Proper, calls

\* scan, which makes no calls.
LEMMA NoCalls == Proper(Command("scan", <<>>))
<1> DEFINE calls == <<>>
<1>1. calls \in Seq(RecordCalls) /\ DOMAIN calls = {}
  OBVIOUS
<1> HIDE DEF calls
<1>2. Command("scan", calls) \in AllCommands
  BY <1>1 DEF Command, AllCommands
<1>3. Command("scan", calls).calls = calls /\ Command("scan", calls).name = "scan"
  BY DEF Command
<1> QED
  BY <1>1, <1>2, <1>3 DEF Proper, calls

\* restore, whose calls are what its parser reads.
LEMMA RestoreProper ==
  ASSUME ProperBackup
  PROVE  Proper(Command("restore", RestoreCalls))
<1> DEFINE read == Restored(BackupText(backup))
<1> DEFINE calls == [i \in DOMAIN read |-> Call("put", read[i].key, read[i].value)]
<1>1. read \in Seq([key : Keys, value : Seq(Characters)])
  BY RestoreReadsRecords, CommandLineAssumption DEF ProperBackup
<1>2. RestoreCalls = calls
  BY DEF RestoreCalls
<1> HIDE DEF read
<1>3. \A i \in DOMAIN read : read[i].key \in Keys /\ read[i].value \in Seq(Characters)
  <2>1. \A i \in DOMAIN read : read[i] \in [key : Keys, value : Seq(Characters)]
    BY <1>1, SeqElements
  <2> QED
    BY <2>1
<1>4. \A i \in DOMAIN read :
        /\ calls[i] \in RecordCalls /\ calls[i].key = read[i].key
        /\ calls[i].kind = "put" /\ calls[i].value = read[i].value
  BY <1>3 DEF Call, RecordCalls
<1>5. DOMAIN calls = DOMAIN read /\ DOMAIN read = 1 .. Len(read) /\ Len(read) \in Nat
  BY <1>1
<1>6. calls \in Seq(RecordCalls)
  BY <1>4, <1>5
<1> HIDE DEF calls
<1>7. Command("restore", calls) \in AllCommands
  BY <1>6 DEF Command, AllCommands
<1>8. Command("restore", calls).calls = calls /\ Command("restore", calls).name = "restore"
  BY DEF Command
<1>9. \A i \in DOMAIN calls : calls[i].value # Nothing
  <2>1. Nothing \notin Seq(Characters)
    BY CommandLineAssumption
  <2> QED
    BY <1>3, <1>4, <1>5, <2>1
<1> QED
  BY <1>2, <1>4, <1>5, <1>7, <1>8, <1>9 DEF Proper

\* Whatever is typed at the prompt makes a proper command.
LEMMA CommandsProper == ASSUME ProperBackup, NEW c \in Commands PROVE Proper(c)
<1>1. \A v \in Values : v \in Seq(Characters) /\ v # Nothing
  BY CommandLineAssumption
<1>2. CASE \E k \in Keys, v \in Values : c = Command("put", <<Call("put", k, v)>>)
  BY <1>1, <1>2, OneCall
<1>3. CASE \E k \in Keys : c = Command("get", <<Call("get", k, Nothing)>>)
  BY <1>3, OneCall
<1>4. CASE \E k \in Keys : c = Command("del", <<Call("delete", k, Nothing)>>)
  BY <1>4, OneCall
<1>5. CASE c = Command("scan", <<>>) \/ c = Command("restore", RestoreCalls)
  BY <1>5, NoCalls, RestoreProper
<1> QED
  BY <1>2, <1>3, <1>4, <1>5 DEF Commands

\* What scanRecords finds.
LEMMA ScansProper ==
  ASSUME astray \subseteq Keys, CellsOK, NEW scan \in Scans
  PROVE  scan \in Seq([key : Keys, value : Seq(Characters)])
<1> DEFINE there == {k \in Keys \ astray : shown[k] # Nothing}
<1> DEFINE known == {[key |-> k, value |-> shown[k]] : k \in there}
<1> DEFINE any == [key : Keys, value : StrayValues]
<1>1. PICK stray \in SUBSET [key : astray, value : StrayValues] : scan = SetToSeq(known \cup stray)
  BY DEF Scans
<1> DEFINE S == known \cup (stray \cap any)
<1>2. IsFiniteSet(known)
  <2>1. IsFiniteSet(there)
    BY CommandLineAssumption, FS_Subset
  <2>2. [k \in there |-> [key |-> k, value |-> shown[k]]] \in Surjection(there, known)
    BY DEF Surjection
  <2> QED
    BY <2>1, <2>2, FS_Surjection
<1>3. IsFiniteSet(any)
  <2>1. IsFiniteSet(Keys \X StrayValues)
    BY CommandLineAssumption, FS_Product
  <2>2. [p \in Keys \X StrayValues |-> [key |-> p[1], value |-> p[2]]]
          \in Surjection(Keys \X StrayValues, any)
    <3>1. \A r \in any : /\ <<r.key, r.value>> \in Keys \X StrayValues
                         /\ r = [key |-> <<r.key, r.value>>[1], value |-> <<r.key, r.value>>[2]]
      OBVIOUS
    <3>2. \A p \in Keys \X StrayValues : [key |-> p[1], value |-> p[2]] \in any
      OBVIOUS
    <3> HIDE DEF any
    <3> QED
      BY <3>1, <3>2 DEF Surjection
  <2> QED
    BY <2>1, <2>2, FS_Surjection
<1>4. IsFiniteSet(S)
  BY <1>2, <1>3, FS_Subset, FS_Union
<1>5. S \subseteq [key : Keys, value : Seq(Characters)]
  BY CommandLineAssumption DEF CellsOK
<1>s. scan = SetToSeq(S)
  <2>1. known \cup stray = S
    OBVIOUS
  <2> QED
    BY <1>1, <2>1
<1> HIDE DEF S
<1>6. \E f : IsInjective(f) /\ f \in [1 .. Cardinality(S) -> S]
  BY <1>4, FS_CardinalityType DEF ExistsBijection, Bijection, Injection, IsInjective
<1>7. SetToSeq(S) \in [1 .. Cardinality(S) -> S]
  BY <1>6 DEF SetToSeq
<1>8. Cardinality(S) \in Nat
  BY <1>4, FS_CardinalityType
<1>9. SetToSeq(S) \in Seq([key : Keys, value : Seq(Characters)])
  BY <1>5, <1>7, <1>8, SeqOfElements
<1> QED
  BY <1>s, <1>9

------------------------------------------------------------------------------
(* What a step of Work does: the thread is in a call, or in a commit *)

\* Records and pages stay as they are.
SameStore == UNCHANGED <<cache, dirty, disk>>
\* No transaction commits or aborts.
NobodyEnds == UNCHANGED <<activeTxns, committed>>

\* A call goes on and has stored nothing.
CallGoesOn ==
  /\ InOperation(main) /\ InOperation(main)' /\ pc[main] # "note"
  /\ pc'[main] = "note" => op[main].kind = "get"
  /\ op'[main] = op[main] /\ SameStore /\ NobodyEnds

\* putRecord stores its record.
PutStores ==
  /\ pc[main] = "store" /\ pc'[main] = "note" /\ op[main].kind = "put"
  /\ Put(op[main].txn, op[main].key)
  /\ op'[main] = op[main] /\ UNCHANGED disk /\ NobodyEnds

\* A call returns that it has failed.
CallFails ==
  /\ InOperation(main) /\ pc[main] # "note" /\ pc'[main] = "idle"
  /\ SameStore /\ NobodyEnds

\* A call that has done its work returns.
CallNotes == pc[main] = "note" /\ pc'[main] = "idle" /\ SameStore /\ NobodyEnds

\* deleteRecord deletes its record and returns.
CallDeletes ==
  /\ pc[main] = "acquired" /\ pc'[main] = "idle" /\ op[main].kind = "delete"
  /\ Delete(op[main].txn, op[main].key)
  /\ UNCHANGED disk /\ NobodyEnds

\* commitTransaction has written every page.
FlushWorks ==
  /\ pc[main] = "flush" /\ pc'[main] = "release" /\ op'[main] = op[main]
  /\ disk' = Flushed(dirty) /\ dirty' = {} /\ UNCHANGED cache /\ NobodyEnds

\* commitTransaction has written some of the pages and returns that it failed.
FlushFails ==
  /\ pc[main] = "flush" /\ pc'[main] = "idle"
  /\ \E S \in SUBSET dirty : disk' = Flushed(S)
  /\ failures' = failures + 1 /\ UNCHANGED cache /\ NobodyEnds

\* commitTransaction ends its transaction and returns.
CommitReturns ==
  /\ pc[main] = "release" /\ pc'[main] = "idle"
  /\ activeTxns' = activeTxns \ {op[main].txn}
  /\ committed' = committed \cup {Stamp(op[main].txn)}
  /\ SameStore

\* There are no other steps of a thread that is in a call or a commit.
LEMMA WorkCases ==
  ASSUME TMTypeOK, Control, ThreadStep(main), ~Idle
  PROVE  /\ UNCHANGED <<run, nextTxnId, mine>> /\ failures' \in {failures, failures + 1}
         /\ \/ CallGoesOn \/ PutStores \/ CallFails \/ CallNotes \/ CallDeletes
            \/ FlushWorks \/ FlushFails \/ CommitReturns
<1>0. main \in Threads
  BY TheThread
<1>1. pc[main] # "idle" /\ pc \in [Threads -> Labels] /\ op \in [Threads -> Operations \cup {NoOp}]
  BY DEF Idle, TMTypeOK
<1> USE DEF SameStore, NobodyEnds, InOperation, Goto, Finish, Failure
<1>2. CASE Acquire(main)
  BY <1>0, <1>1, <1>2 DEF Acquire, CallGoesOn
<1>3. CASE Wake(main)
  <2>1. pc[main] = "acquired" /\ UNCHANGED <<pc, op>>
    BY <1>0, <1>3, WakeAt
  <2> QED
    BY <1>3, <2>1 DEF Wake, CallGoesOn
<1>4. CASE Refused(main)
  BY <1>0, <1>1, <1>4 DEF Refused, Acquired, CallFails
<1>5. CASE PutLogStart(main)
  BY <1>0, <1>1, <1>5 DEF PutLogStart, Acquired, CallGoesOn
<1>6. CASE PutLogged(main)
  BY <1>0, <1>1, <1>6 DEF PutLogged, PutLogEnds, CallGoesOn
<1>7. CASE PutLogFails(main)
  BY <1>0, <1>1, <1>7 DEF PutLogFails, PutLogEnds, CallFails
<1>8. CASE PutStore(main)
  <2>1. op[main].kind = "put"
    BY <1>0, <1>8 DEF PutStore, Control
  <2>2. CASE Put(op[main].txn, op[main].key) /\ Goto(main, "note") /\ UNCHANGED failures
    BY <1>0, <1>1, <1>8, <2>1, <2>2 DEF PutStore, PutStores
  <2>3. CASE Failure /\ Finish(main) /\ UNCHANGED <<cache, dirty, astray, accesses>>
    BY <1>0, <1>1, <1>8, <2>3 DEF PutStore, CallFails
  <2>4. CASE Goto(main, "hung") /\ UNCHANGED <<cache, dirty, astray, failures, accesses>>
    BY <1>0, <1>1, <1>8, <2>4 DEF PutStore, CallGoesOn
  <2> QED
    BY <1>8, <2>2, <2>3, <2>4 DEF PutStore
<1>9. CASE GetRead(main)
  BY <1>0, <1>1, <1>9 DEF GetRead, Acquired, CallGoesOn, CallFails
<1>10. CASE Note(main)
  BY <1>0, <1>1, <1>10 DEF Note, CallNotes
<1>11. CASE DeleteTooLate(main) \/ DeleteLogFails(main) \/ DeleteNotFound(main)
  BY <1>0, <1>1, <1>11
     DEF DeleteTooLate, DeleteLogFails, DeleteNotFound, Deleting, Acquired, CallFails
<1>12. CASE DeleteFound(main)
  BY <1>0, <1>1, <1>12 DEF DeleteFound, Deleting, Acquired, CallDeletes
<1>13. CASE CommitFlush(main)
  BY <1>0, <1>1, <1>13 DEF CommitFlush, FlushWorks, FlushFails
<1>14. CASE CommitRelease(main)
  BY <1>0, <1>1, <1>14 DEF CommitRelease, CommitReturns
<1> QED
  BY <1>1, <1>2, <1>3, <1>4, <1>5, <1>6, <1>7, <1>8, <1>9, <1>10, <1>11, <1>12, <1>13, <1>14
     DEF ThreadStep, DeleteApply, Begin, Start, CommitLog, EndNotLogged, Abort

------------------------------------------------------------------------------
(* Loop is inductive *)

\* The answer to a command.
LEMMA AnswerStep ==
  ASSUME NEW values, Answer(values), pc'[main] = "idle"
  PROVE  Loop'
BY DEF Answer, Loop, Idle

\* A call returned.
LEMMA ReturnedStep ==
  ASSUME Loop, stage = "call", pc'[main] = "idle", NEW success \in BOOLEAN, Returned(success)
  PROVE  Loop'
<1>0. /\ Proper(cmd) /\ cmd # NoCommand /\ at \in DOMAIN cmd.calls /\ at \in Nat
      /\ Len(cmd.calls) \in Nat /\ DOMAIN cmd.calls = 1 .. Len(cmd.calls)
      /\ \A i \in failed : i \in Nat \ {0} /\ i < at
  BY LengthType DEF Loop
<1>1. /\ at' = at + 1 /\ cmd' = cmd /\ failed' = IF success THEN failed ELSE failed \cup {at}
      /\ stage' = IF cmd.name \in {"put", "del"} /\ ~success THEN "abort"
                  ELSE IF at' > Len(cmd.calls) THEN "commit" ELSE "call"
  BY DEF Returned, GoOn
<1>2. \A i \in failed' : i \in Nat \ {0} /\ i < at'
  BY <1>0, <1>1
<1>3. cmd.name \in {"put", "del"} => DOMAIN cmd.calls = {1} /\ at = 1 /\ failed = {}
  <2>1. cmd.name \in {"put", "del"} => DOMAIN cmd.calls = {1}
    BY <1>0 DEF Proper
  <2> QED
    BY <1>0, <2>1
<1>4. CASE stage' = "abort"
  <2>1. cmd.name \in {"put", "del"} /\ failed' = DOMAIN cmd.calls
    BY <1>1, <1>3, <1>4
  <2> QED
    BY <1>0, <1>1, <1>2, <1>4, <2>1 DEF Loop, Idle
<1>5. CASE stage' = "call"
  BY <1>0, <1>1, <1>2, <1>5 DEF Loop, Idle
<1>6. CASE stage' = "commit"
  <2>1. cmd.name \in {"put", "del"} => failed' = {}
    BY <1>1, <1>3, <1>6
  <2> QED
    BY <1>0, <1>1, <1>2, <1>6, <2>1 DEF Loop, Idle
<1> QED
  BY <1>1, <1>4, <1>5, <1>6

\* commitTransaction returned.
LEMMA CommittedStep ==
  ASSUME Loop, stage = "commit", pc'[main] = "idle", NEW success \in BOOLEAN, Committed(success)
  PROVE  Loop'
<1>1. CASE success \/ cmd.name # "restore"
  <2>1. PICK values : Answer(values)
    BY <1>1 DEF Committed, Done, Unsure
  <2> QED
    BY <2>1, AnswerStep
<1>2. CASE ~success /\ cmd.name = "restore"
  <2>1. stage' = "abort" /\ UNCHANGED <<cmd, at, failed>>
    BY <1>2 DEF Committed, GoOn
  <2> QED
    BY <1>2, <2>1 DEF Loop, Idle
<1> QED
  BY <1>1, <1>2

\* Where the loop is agrees with where its thread is, after every step.
LEMMA LoopStep ==
  ASSUME Manager, Loop, ProperBackup, [CLNext]_<<vars, cliVars>>
  PROVE  Loop'
<1>0. main \in Threads /\ TMTypeOK /\ Control
  BY TheThread DEF Manager
<1>1. CASE UNCHANGED <<vars, cliVars>>
  BY <1>1 DEF Loop, Idle, InOperation, Committing, vars
<1>2. CASE Accept
  <2>1. PICK c \in Commands : cmd' = c
    BY <1>2 DEF Accept
  <2>2. Proper(cmd') /\ cmd' # NoCommand
    BY <2>1, CommandsProper, NotACommand
  <2>3. Idle' /\ stage' = "begin" /\ at' = 1 /\ failed' = {}
    BY <1>2 DEF Accept, Idle, vars
  <2> QED
    BY <2>2, <2>3 DEF Loop
<1>3. CASE Backup
  BY <1>3 DEF Backup, Loop, Idle, InOperation, Committing, vars
<1>4. CASE BeginTransaction
  <2>1. /\ stage = "begin" /\ UNCHANGED <<cmd, at, failed, pc>>
        /\ stage' = IF cmd.calls = <<>> THEN "commit" ELSE "call"
    BY <1>4 DEF BeginTransaction, Begin, GoOn
  <2>2. Proper(cmd) /\ cmd # NoCommand /\ at = 1 /\ failed = {} /\ Idle
    BY <2>1 DEF Loop
  <2>3. /\ cmd.calls = <<>> => Len(cmd.calls) = 0
        /\ cmd.calls # <<>> => 1 \in DOMAIN cmd.calls
    <3>1. cmd.calls \in Seq(RecordCalls)
      BY <2>2 DEF Proper, AllCommands
    <3> QED
      BY <3>1
  <2> QED
    BY <2>1, <2>2, <2>3 DEF Loop, Idle
<1>5. CASE MakeCall
  <2>0. stage = "call" /\ Idle /\ Proper(cmd) /\ cmd # NoCommand
    BY <1>5 DEF MakeCall, Loop
  <2>1. CASE Active
    <3>1. /\ Start(main, cmd.calls[at].kind, mine[main], cmd.calls[at].key)
          /\ UNCHANGED loopVars
      BY <1>5, <2>1 DEF MakeCall
    <3>2. /\ pc'[main] = "acquire" /\ UNCHANGED mine
          /\ op'[main] = [kind |-> cmd.calls[at].kind, txn |-> mine[main], key |-> cmd.calls[at].key]
      BY <1>0, <3>1 DEF Start, TMTypeOK
    <3> QED
      BY <2>0, <3>1, <3>2 DEF Loop, Idle, InOperation
  <2>2. CASE ~Active
    <3>1. Returned(FALSE) /\ pc'[main] = "idle"
      BY <1>5, <2>0, <2>2 DEF MakeCall, Idle, vars
    <3> QED
      BY <2>0, <3>1, ReturnedStep
  <2> QED
    BY <2>1, <2>2
<1>6. CASE Work
  <2>0. /\ ThreadStep(main) /\ ~Idle /\ stage \in {"call", "commit"}
        /\ Proper(cmd) /\ cmd # NoCommand
    BY <1>6 DEF Work, Loop
  <2>1. CASE pc'[main] = "idle"
    <3>1. CASE stage = "commit"
      <4>1. Committed(committed' # committed)
        BY <1>6, <2>1, <3>1 DEF Work
      <4> QED
        BY <2>1, <3>1, <4>1, CommittedStep
    <3>2. CASE stage # "commit"
      <4>1. Returned(pc[main] = "note" \/ cache' # cache)
        BY <1>6, <2>1, <3>2 DEF Work
      <4> QED
        BY <2>0, <2>1, <3>2, <4>1, ReturnedStep
    <3> QED
      BY <3>1, <3>2
  <2>2. CASE pc'[main] # "idle"
    <3>1. UNCHANGED loopVars
      BY <1>6, <2>2 DEF Work
    <3>2. UNCHANGED mine
      BY <1>0, <2>0, WorkCases
    <3>3. CASE stage = "call"
      <4>1. InOperation(main)' /\ op'[main] = op[main]
        <5>1. InOperation(main)
          BY <2>0, <3>3 DEF Loop
        <5>2. CallGoesOn \/ PutStores
          BY <1>0, <2>0, <2>2, <5>1, WorkCases
             DEF InOperation, FlushWorks, CallFails, CallNotes, CallDeletes, FlushFails, CommitReturns
        <5> QED
          BY <5>2 DEF CallGoesOn, PutStores, InOperation
      <4> QED
        BY <2>0, <3>1, <3>2, <3>3, <4>1 DEF Loop
    <3>4. CASE stage = "commit"
      <4>1. Committing(main)'
        <5>1. Committing(main)
          BY <2>0, <3>4 DEF Loop
        <5>2. FlushWorks
          BY <1>0, <2>0, <2>2, <5>1, WorkCases
             DEF InOperation, Committing, CallGoesOn, PutStores, CallFails, CallNotes, CallDeletes,
                 FlushFails, CommitReturns
        <5> QED
          BY <5>2 DEF FlushWorks, Committing
      <4> QED
        BY <2>0, <3>1, <3>4, <4>1 DEF Loop
    <3> QED
      BY <2>0, <3>3, <3>4
  <2> QED
    BY <2>1, <2>2
<1>7. CASE Commit
  <2>0. stage = "commit" /\ Idle
    BY <1>7 DEF Commit
  <2>1. CASE CommitLog(main, mine[main])
    <3>1. pc'[main] \in {"idle", "flush"}
      BY <1>0, <2>0, <2>1 DEF CommitLog, TMTypeOK, Idle
    <3>2. CASE pc'[main] = "idle" /\ Committed(FALSE)
      BY <2>0, <3>2, CommittedStep
    <3>3. CASE pc'[main] = "flush" /\ UNCHANGED loopVars
      BY <2>0, <3>3 DEF Loop, Idle, Committing
    <3>4. \/ pc'[main] = "idle" /\ Committed(FALSE)
          \/ pc'[main] # "idle" /\ UNCHANGED loopVars
          \/ EndFails /\ Committed(FALSE)
      BY <1>7 DEF Commit
    <3>5. EndFails => pc'[main] = "idle"
      BY <2>0 DEF EndFails, EndNotLogged, Idle, vars
    <3> QED
      BY <3>1, <3>2, <3>3, <3>4, <3>5
  <2>2. CASE EndFails /\ Committed(FALSE)
    <3>1. pc'[main] = "idle"
      BY <2>0, <2>2 DEF EndFails, EndNotLogged, Idle, vars
    <3> QED
      BY <2>0, <2>2, <3>1, CommittedStep
  <2> QED
    BY <1>7, <2>1, <2>2 DEF Commit
<1>8. CASE AbortCommand
  <2>1. pc'[main] = "idle"
    BY <1>8 DEF AbortCommand, Abort, EndFails, EndNotLogged, Idle, vars
  <2>2. PICK values : Answer(values)
    BY <1>8 DEF AbortCommand, Unsure, NotDone
  <2> QED
    BY <2>1, <2>2, AnswerStep
<1>9. CASE EndOfRun
  <2>1. pc'[main] = "idle"
    <3>1. pc' = [th \in Threads |-> "idle"]
      BY <1>0, <1>9, EndOfRunIsRestart DEF EndOfRun, Quit, Restart
    <3> QED
      BY <1>0, <3>1
  <2>2. PICK values : Answer(values)
    BY <1>9 DEF EndOfRun, Unsure
  <2> QED
    BY <2>1, <2>2, AnswerStep
<1> QED
  BY <1>1, <1>2, <1>3, <1>4, <1>5, <1>6, <1>7, <1>8, <1>9 DEF CLNext, CommandStep

------------------------------------------------------------------------------
(* What a command has done *)

\* Its call i wrote its value.
Applied(i) ==
  /\ cmd # NoCommand /\ i \in DOMAIN cmd.calls \ failed /\ cmd.calls[i].kind # "get"
  /\ i < at \/ (i = at /\ pc[main] = "note")

\* The command wrote value v to key k.
Did(v, k) == \E i : Applied(i) /\ cmd.calls[i].key = k /\ cmd.calls[i].value = v

\* While it makes its calls, a command's transaction has written what the command
\* has done, and to the cache alone.
Fresh ==
  stage = "call" /\ mine[main] # INVALID_TXN_ID => \A k \in Keys :
    /\ disk[k].by # Stamp(mine[main])
    /\ cache[k].by = Stamp(mine[main]) => \E v : Did(v, k)

------------------------------------------------------------------------------
(* What a step does to the records and to their values *)

\* The loop keeps what TransactionManagerProofs knows of the manager.
LEMMA ManagerStep == ASSUME Manager, [TMNext]_vars PROVE Manager'
<1>1. TMTypeOK' /\ Control' /\ Ids' /\ CallIsOp' /\ Ends' /\ Clean'
  BY TMTypeStep, ControlStep, IdsStep, CallIsOpStep, EndsStep, CleanStep DEF Manager
<1>2. OwnTxns' /\ OnlyLateDeletes'
  BY TheThread, OwnTxnsStep, LateDeleteStep DEF Manager
<1> QED
  BY <1>1, <1>2 DEF Manager

\* The run goes on and at most one transaction begins.
NextIdGrows == run' = run /\ nextTxnId' \in {nextTxnId, nextTxnId + 1}

\* No value changes.
DataSame == UNCHANGED <<cache, disk, dataVars>> /\ NextIdGrows

\* A call of the command writes its key.
DataWritten ==
  LET c == cmd.calls[at]
  IN  /\ stage = "call" /\ mine[main] \in activeTxns /\ c.kind \in {"put", "delete"}
      /\ c.key \in Keys
      /\ cache' = [cache EXCEPT ![c.key] = [by |-> Stamp(mine[main]), present |-> c.kind = "put"]]
      /\ shown' = [shown EXCEPT ![c.key] = c.value]
      /\ UNCHANGED <<disk, saved>> /\ NextIdGrows

\* Pages reach the file.
DataFlushed ==
  /\ \E S : disk' = Flushed(S)
  /\ saved' = Saved /\ UNCHANGED <<cache, shown>> /\ NextIdGrows

\* A new run begins with the records that are in the file.
DataRestarted ==
  /\ \E S : disk' = Flushed(S)
  /\ cache' = disk' /\ saved' = Saved /\ shown' = Saved
  /\ run' = run + 1

\* In a call that a step of Work makes, the operation is the command's.
LEMMA CallOfCommand ==
  ASSUME Manager, Loop, stage = "call", ~Idle
  PROVE  /\ op[main].txn = mine[main] /\ mine[main] \in activeTxns
         /\ op[main].kind = cmd.calls[at].kind /\ op[main].key = cmd.calls[at].key
         /\ op[main].key \in Keys /\ InOperation(main)
<1>1. /\ InOperation(main)
      /\ op[main] = [kind |-> cmd.calls[at].kind, txn |-> mine[main], key |-> cmd.calls[at].key]
  BY DEF Loop
<1>2. op[main].key \in Keys
  BY <1>1, TheThread, OperationType DEF Manager, Idle
<1>3. op[main].txn = mine[main] /\ mine[main] \in activeTxns
  BY TheThread DEF Manager, OwnTxns, Idle
<1> QED
  BY <1>1, <1>2, <1>3

\* Only a put that stores its record is one that Stores.
LEMMA OnlyPutStores ==
  ASSUME Manager, \/ CallGoesOn \/ CallFails \/ CallNotes \/ CallDeletes
                  \/ FlushWorks \/ FlushFails \/ CommitReturns
  PROVE  ~Stores
<1>1. pc[main] = "store" => op[main].kind = "put"
  BY TheThread DEF Manager, Control
<1> QED
  BY <1>1 DEF Stores, CallGoesOn, CallFails, CallNotes, CallDeletes, FlushWorks, FlushFails,
              CommitReturns

\* A delete is the only call of its command, so the record it deletes is not of its own
\* transaction, and the cache does not stay as it is.
LEMMA DeleteIsNew ==
  ASSUME Manager, Loop, CellsOK, Fresh, Work, CallDeletes
  PROVE  cache' # cache
<1>0. cache \in [Keys -> Records] /\ TMTypeOK
  BY DEF Manager, TMTypeOK
<1>1. stage = "call" /\ ~Idle /\ pc[main] = "acquired"
  BY DEF Work, CallDeletes, Loop, Committing
<1>2. /\ op[main].txn = mine[main] /\ mine[main] \in activeTxns
      /\ cmd.calls[at].kind = "delete" /\ op[main].key \in Keys
  BY <1>1, CallOfCommand DEF CallDeletes
<1>3. mine[main] # INVALID_TXN_ID
  BY <1>0, <1>2, TransactionManagerAssumption DEF TMTypeOK
<1>4. DOMAIN cmd.calls = {1} /\ at = 1
  BY <1>1, <1>2 DEF Loop, Proper
<1>5. \A i : ~Applied(i)
  BY <1>1, <1>4 DEF Applied
<1>6. cache[op[main].key].by # Stamp(mine[main])
  BY <1>1, <1>2, <1>3, <1>5 DEF Fresh, Did
<1>7. cache'[op[main].key].by = Stamp(mine[main])
  BY <1>0, <1>2 DEF CallDeletes, Delete
<1> QED
  BY <1>6, <1>7

\* A step that writes to the cache writes what the call of the command says.
LEMMA WrittenStep ==
  ASSUME Manager, Loop, CellsOK, Fresh, Work, PutStores \/ CallDeletes
  PROVE  DataWritten
<1>0. TMTypeOK /\ Control
  BY DEF Manager
<1>1. /\ ThreadStep(main) /\ ~Idle /\ saved' = Saved /\ NextIdGrows
      /\ shown' = [shown EXCEPT ![op[main].key] = cmd.calls[at].value]
  BY <1>0, WorkCases, DeleteIsNew DEF Work, Stores, PutStores, NextIdGrows
<1>2. InOperation(main) /\ disk' = disk
  BY DEF PutStores, CallDeletes, InOperation
<1>3. stage = "call" /\ saved' = saved
  BY <1>1, <1>2 DEF Loop, InOperation, Committing, Idle, CellsOK, Saved
<1>4. /\ op[main].txn = mine[main] /\ mine[main] \in activeTxns
      /\ op[main].kind = cmd.calls[at].kind /\ op[main].key = cmd.calls[at].key
      /\ op[main].key \in Keys
  BY <1>1, <1>3, CallOfCommand
<1>5. /\ op[main].kind \in {"put", "delete"}
      /\ cache' = [cache EXCEPT ![op[main].key] =
                     [by |-> Stamp(op[main].txn), present |-> op[main].kind = "put"]]
  BY DEF PutStores, CallDeletes, Put, Delete
<1> QED
  BY <1>1, <1>2, <1>3, <1>4, <1>5 DEF DataWritten

\* There are no other steps, as far as values go.
LEMMA DataCases ==
  ASSUME Manager, Loop, CellsOK, Fresh, [CLNext]_<<vars, cliVars>>
  PROVE  DataSame \/ DataWritten \/ DataFlushed \/ DataRestarted
<1>0. main \in Threads /\ TMTypeOK /\ Control
  BY TheThread DEF Manager
<1> USE DEF NextIdGrows
<1>s. disk' = disk => Saved = saved
  BY DEF CellsOK, Saved
<1>1. CASE UNCHANGED <<vars, cliVars>> \/ Accept \/ Backup
  BY <1>1 DEF Accept, Backup, DataSame, vars
<1>2. CASE BeginTransaction
  BY <1>2 DEF BeginTransaction, Begin, DataSame
<1>3. CASE MakeCall
  BY <1>3 DEF MakeCall, Start, DataSame, vars
<1>4. CASE Work
  <2>1. /\ ThreadStep(main) /\ ~Idle /\ saved' = Saved /\ NextIdGrows
        /\ ~Stores /\ cache' = cache => shown' = shown
    BY <1>0, <1>4, WorkCases DEF Work
  <2>2. CASE UNCHANGED <<cache, disk>> /\ ~Stores
    BY <1>s, <2>1, <2>2 DEF DataSame
  <2>3. CASE PutStores \/ CallDeletes
    BY <1>4, <2>3, WrittenStep
  <2>4. CASE FlushWorks \/ FlushFails
    <3>1. cache' = cache /\ \E S : disk' = Flushed(S)
      BY <2>4 DEF FlushWorks, FlushFails
    <3>2. shown' = shown
      BY <2>1, <2>4, <3>1, OnlyPutStores
    <3> QED
      BY <2>1, <3>1, <3>2 DEF DataFlushed
  <2> QED
    BY <1>0, <2>1, <2>2, <2>3, <2>4, WorkCases, OnlyPutStores
       DEF CallGoesOn, CallFails, CallNotes, CommitReturns, SameStore
<1>5. CASE Commit
  BY <1>5 DEF Commit, CommitLog, EndFails, EndNotLogged, DataSame, vars
<1>6. CASE AbortCommand
  BY <1>6 DEF AbortCommand, Abort, EndFails, EndNotLogged, DataSame, vars
<1>7. CASE EndOfRun
  <2>1. \E S : disk' = Flushed(S) /\ cache' = Flushed(S) /\ run' = run + 1
    BY <1>0, <1>7, EndOfRunIsRestart DEF EndOfRun, Quit, Restart
  <2> QED
    BY <1>7, <2>1 DEF EndOfRun, DataRestarted
<1> QED
  BY <1>1, <1>2, <1>3, <1>4, <1>5, <1>6, <1>7 DEF CLNext, CommandStep

\* The values of the calls are ones that a record can have.
LEMMA CellsStep ==
  ASSUME Manager, Loop, CellsOK, Fresh, [CLNext]_<<vars, cliVars>>
  PROVE  CellsOK'
<1>0. cache \in [Keys -> Records] /\ disk \in [Keys -> Records]
  BY DEF Manager, TMTypeOK
<1>1. CASE DataSame
  BY <1>1 DEF DataSame, CellsOK
<1>2. CASE DataWritten
  <2> DEFINE c == cmd.calls[at]
  <2>1. Proper(cmd) /\ at \in DOMAIN cmd.calls
    BY <1>2 DEF DataWritten, Loop
  <2>2. /\ c.value \in Seq(Characters) \cup {Nothing}
        /\ c.kind = "put" => c.value # Nothing
        /\ c.kind = "delete" => c.value = Nothing
    BY <2>1, CallType DEF Proper
  <2> HIDE DEF c
  <2>3. /\ c.kind \in {"put", "delete"} /\ c.key \in Keys
        /\ cache' = [cache EXCEPT ![c.key] = [by |-> Stamp(mine[main]), present |-> c.kind = "put"]]
        /\ shown' = [shown EXCEPT ![c.key] = c.value]
        /\ UNCHANGED <<disk, saved>>
    BY <1>2 DEF DataWritten, c
  <2>4. shown' \in [Keys -> Seq(Characters) \cup {Nothing}]
    BY <2>2, <2>3 DEF CellsOK
  <2>5. ASSUME NEW k \in Keys PROVE cache'[k].present <=> shown'[k] # Nothing
    <3>1. CASE k # c.key
      BY <1>0, <2>3, <3>1 DEF CellsOK
    <3>2. CASE k = c.key
      <4>1. cache'[k].present = (c.kind = "put") /\ shown'[k] = c.value
        BY <1>0, <2>3, <3>2 DEF CellsOK
      <4> QED
        BY <2>2, <2>3, <4>1
    <3> QED
      BY <3>1, <3>2
  <2> QED
    BY <2>3, <2>4, <2>5 DEF CellsOK
<1>3. ASSUME \E S : disk' = Flushed(S), saved' = Saved
      PROVE  /\ saved' \in [Keys -> Seq(Characters) \cup {Nothing}]
             /\ \A k \in Keys : disk'[k].present <=> saved'[k] # Nothing
  BY <1>0, <1>3 DEF Flushed, Saved, CellsOK
<1>4. CASE DataFlushed
  BY <1>3, <1>4 DEF DataFlushed, CellsOK
<1>5. CASE DataRestarted
  BY <1>3, <1>5 DEF DataRestarted, CellsOK
<1> QED
  BY <1>1, <1>2, <1>4, <1>5, DataCases

------------------------------------------------------------------------------
(* A record and its value *)

\* A stamp is that of a transaction that has begun.
OldStamp(by) == by[1] <= run /\ (by[1] = run => by[2] < nextTxnId)
StampsOld == \A k \in Keys : OldStamp(cache[k].by) /\ OldStamp(disk[k].by)

\* A record that is in the file as it is in the cache has its value there, too.
SavedShown == \A k \in Keys : disk[k] = cache[k] => saved[k] = shown[k]

\* Stamps stay those of transactions that have begun.
LEMMA StampsOldStep ==
  ASSUME Manager, Loop, CellsOK, Fresh, StampsOld, [CLNext]_<<vars, cliVars>>
  PROVE  StampsOld'
<1>0. /\ cache \in [Keys -> Records] /\ disk \in [Keys -> Records]
      /\ run \in Nat /\ nextTxnId \in Nat
      /\ mine[main] \in Nat /\ mine[main] < nextTxnId
      /\ \A r \in Records : r.by[1] \in Nat /\ r.by[2] \in Nat
  <2>1. \A r \in Records : r.by[1] \in Nat /\ r.by[2] \in Nat
    BY StampTypes DEF Records
  <2>2. mine[main] \in Nat /\ mine[main] < nextTxnId
    <3>1. mine[main] \in Txns \cup {INVALID_TXN_ID}
      BY TheThread DEF Manager, TMTypeOK
    <3>2. mine[main] < nextTxnId
      BY TheThread DEF Manager, Ids
    <3>3. Txns \subseteq Nat /\ INVALID_TXN_ID \in Nat
      BY TransactionManagerAssumption DEF INVALID_TXN_ID
    <3> QED
      BY <3>1, <3>2, <3>3
  <2>3. run \in Nat
    BY RunType DEF Manager
  <2> QED
    BY <2>1, <2>2, <2>3 DEF Manager, TMTypeOK
<1>1. ASSUME NextIdGrows, NEW r \in Records, OldStamp(r.by) PROVE OldStamp(r.by)'
  BY <1>0, <1>1 DEF NextIdGrows, OldStamp
<1>2. \A S : \A k \in Keys : Flushed(S)[k] \in {cache[k], disk[k]}
  BY DEF Flushed
<1>3. CASE DataSame
  BY <1>0, <1>1, <1>3 DEF DataSame, StampsOld
<1>4. CASE DataFlushed
  <2>1. NextIdGrows /\ cache' = cache /\ \A k \in Keys : disk'[k] \in {cache[k], disk[k]}
    BY <1>2, <1>4 DEF DataFlushed
  <2> QED
    BY <1>0, <1>1, <2>1 DEF StampsOld
<1>5. CASE DataWritten
  <2>1. NextIdGrows /\ disk' = disk
        /\ \A k \in Keys : cache'[k] = cache[k] \/ cache'[k].by = Stamp(mine[main])
    BY <1>0, <1>5 DEF DataWritten
  <2>s. PICK s : s = Stamp(mine[main])
    OBVIOUS
  <2>2. OldStamp(s)'
    <3>1. s[1] = run /\ s[2] = mine[main] /\ run' = run
      BY <2>s, <2>1, StampParts DEF NextIdGrows
    <3>2. mine[main] < nextTxnId'
      BY <1>0, <2>1 DEF NextIdGrows
    <3> QED
      BY <1>0, <3>1, <3>2 DEF OldStamp
  <2> QED
    BY <1>0, <1>1, <2>1, <2>2, <2>s DEF StampsOld
<1>6. CASE DataRestarted
  <2>1. /\ run' = run + 1
        /\ \A k \in Keys : disk'[k] \in {cache[k], disk[k]} /\ cache'[k] = disk'[k]
    BY <1>2, <1>6 DEF DataRestarted
  <2>2. ASSUME NEW r \in Records, OldStamp(r.by) PROVE OldStamp(r.by)'
    BY <1>0, <2>1, <2>2 DEF OldStamp
  <2> QED
    BY <1>0, <2>1, <2>2 DEF StampsOld
<1> QED
  BY <1>3, <1>4, <1>5, <1>6, DataCases

------------------------------------------------------------------------------
(* The values that a command has written are those that its keys have *)

\* A key has the value that the command gave it, or one that the answers before
\* it allow, and the file may still have the latter.
KeyValues ==
  \A k \in Keys :
    /\ saved[k] \in expected[k] \/ Did(saved[k], k)
    /\ Did(shown[k], k) \/ (shown[k] \in expected[k] /\ ~ \E v : Did(v, k))

\* A commit that is about to return has written all pages.
ReleaseWrote == pc[main] = "release" => dirty = {}

\* A value that a call of the command has written is one the key may have.
LEMMA DidIsAllowed ==
  ASSUME Loop, NEW k, NEW v, Did(v, k)
  PROVE  v \in MayHave(k)
<1>1. PICK i : Applied(i) /\ cmd.calls[i].key = k /\ cmd.calls[i].value = v
  BY DEF Did
<1>2. Len(cmd.calls) \in Nat /\ DOMAIN cmd.calls = 1 .. Len(cmd.calls) /\ at \in Nat
  BY <1>1, LengthType DEF Applied, Loop
<1>3. i \in (DOMAIN cmd.calls \ failed) \cap (1 .. at) /\ cmd # NoCommand
  BY <1>1, <1>2 DEF Applied
<1> QED
  BY <1>1, <1>3 DEF MayHave, Applied

\* The promises follow.
LEMMA ValuesAllowed ==
  ASSUME Loop, KeyValues, NEW k \in Keys
  PROVE  {shown[k], saved[k]} \subseteq expected[k] \cup MayHave(k)
BY DidIsAllowed DEF KeyValues

LEMMA ValuesKeepPromises == ASSUME Loop, KeyValues PROVE Promises
BY ValuesAllowed DEF Promises

\* A new record has its value.
LEMMA SavedShownStep ==
  ASSUME Manager, Loop, CellsOK, SavedShown, Fresh, [CLNext]_<<vars, cliVars>>
  PROVE  SavedShown'
<1>0. cache \in [Keys -> Records] /\ disk \in [Keys -> Records]
  BY DEF Manager, TMTypeOK
<1>1. CASE DataSame
  BY <1>1 DEF DataSame, SavedShown
<1>2. CASE DataWritten
  <2>0. mine[main] # INVALID_TXN_ID
    BY <1>2, TransactionManagerAssumption DEF DataWritten, Manager, TMTypeOK
  <2>1. ASSUME NEW k \in Keys, disk'[k] = cache'[k] PROVE saved'[k] = shown'[k]
    <3>1. \/ cache'[k] = cache[k] /\ shown'[k] = shown[k]
          \/ cache'[k].by = Stamp(mine[main])
      BY <1>0, <1>2 DEF DataWritten, CellsOK
    <3>2. disk'[k] = disk[k] /\ disk[k].by # Stamp(mine[main]) /\ saved' = saved
      BY <1>2, <2>0 DEF DataWritten, Fresh
    <3>3. disk[k] = cache[k] /\ shown'[k] = shown[k]
      BY <2>1, <3>1, <3>2
    <3> QED
      BY <3>2, <3>3 DEF SavedShown
  <2> QED
    BY <2>1 DEF SavedShown
<1>3. CASE DataFlushed
  <2>1. ASSUME NEW k \in Keys, disk'[k] = cache'[k] PROVE saved'[k] = shown'[k]
    BY <1>3, <2>1 DEF DataFlushed, Saved, SavedShown
  <2> QED
    BY <2>1 DEF SavedShown
<1>4. CASE DataRestarted
  BY <1>4 DEF DataRestarted, SavedShown
<1> QED
  BY <1>1, <1>2, <1>3, <1>4, DataCases

\* A commit gets to its end only when every page has been written.
LEMMA ReleaseWroteStep ==
  ASSUME Manager, Loop, ReleaseWrote, [CLNext]_<<vars, cliVars>>
  PROVE  ReleaseWrote'
<1>0. main \in Threads /\ TMTypeOK /\ Control /\ pc \in [Threads -> Labels]
  BY TheThread DEF Manager, TMTypeOK
<1> SUFFICES ASSUME pc'[main] = "release" PROVE dirty' = {}
  BY DEF ReleaseWrote
<1>1. CASE UNCHANGED <<vars, cliVars>> \/ Accept \/ Backup
  BY <1>1 DEF Accept, Backup, ReleaseWrote, vars
<1>2. CASE BeginTransaction
  BY <1>0, <1>2 DEF BeginTransaction, Begin, ReleaseWrote
<1>3. CASE MakeCall
  BY <1>0, <1>3 DEF MakeCall, Start, Idle, vars
<1>4. CASE Work
  <2>1. ThreadStep(main) /\ ~Idle
    BY <1>4 DEF Work
  <2>2. FlushWorks
    BY <1>0, <2>1, WorkCases
       DEF CallGoesOn, InOperation, PutStores, CallFails, CallNotes, CallDeletes, FlushFails,
           CommitReturns
  <2> QED
    BY <2>2 DEF FlushWorks
<1>5. CASE Commit
  BY <1>0, <1>5 DEF Commit, CommitLog, EndFails, EndNotLogged, Idle, vars
<1>6. CASE AbortCommand
  BY <1>0, <1>6 DEF AbortCommand, Abort, EndFails, EndNotLogged, Idle, vars
<1>7. CASE EndOfRun
  BY <1>0, <1>7, EndOfRunIsRestart DEF EndOfRun, Quit, Restart
<1> QED
  BY <1>1, <1>2, <1>3, <1>4, <1>5, <1>6, <1>7 DEF CLNext, CommandStep

\* Nothing is done when a command begins, and nothing more when Applied stays.
LEMMA NothingDone ==
  ASSUME Loop, stage \in {"prompt", "begin"}
  PROVE  \A v, k : ~Did(v, k)
<1>1. CASE cmd = NoCommand
  BY <1>1 DEF Did, Applied
<1>2. CASE cmd # NoCommand
  <2>1. at = 1 /\ Idle /\ DOMAIN cmd.calls = 1 .. Len(cmd.calls) /\ Len(cmd.calls) \in Nat
    BY <1>2, LengthType DEF Loop
  <2> QED
    BY <2>1 DEF Did, Applied, Idle
<1> QED
  BY <1>1, <1>2

\* A step that does no call changes nothing of what was done.
LEMMA DidSame ==
  ASSUME cmd' = cmd, \A i : Applied(i)' <=> Applied(i)
  PROVE  \A v, k : Did(v, k)' <=> Did(v, k)
BY DEF Did

\* A step that does a call adds its value, and no other.
LEMMA DidMore ==
  ASSUME cmd' = cmd, \A i : Applied(i)' <=> Applied(i) \/ i = at,
         NEW v, NEW k
  PROVE  Did(v, k)' <=> Did(v, k) \/ (cmd.calls[at].key = k /\ cmd.calls[at].value = v)
BY DEF Did

\* What a call that returned has done.
LEMMA ReturnedDid ==
  ASSUME Loop, stage = "call", pc'[main] = "idle", NEW success \in BOOLEAN, Returned(success)
  PROVE  /\ cmd' = cmd
         /\ ~success /\ pc[main] # "note" => \A i : Applied(i)' <=> Applied(i)
         /\ success => \A i : Applied(i)' <=> Applied(i) \/ (i = at /\ cmd.calls[at].kind # "get")
<1>1. /\ Proper(cmd) /\ cmd # NoCommand /\ at \in DOMAIN cmd.calls /\ at \in Nat
      /\ Len(cmd.calls) \in Nat /\ DOMAIN cmd.calls = 1 .. Len(cmd.calls)
      /\ \A i \in failed : i < at
  BY LengthType DEF Loop
<1>2. /\ at' = at + 1 /\ cmd' = cmd /\ failed' = IF success THEN failed ELSE failed \cup {at}
  BY DEF Returned, GoOn
<1>3. at \notin failed
  BY <1>1
<1>4. \A i \in DOMAIN cmd.calls : i < at + 1 <=> i < at \/ i = at
  BY <1>1
<1>5. CASE success
  BY <1>1, <1>2, <1>3, <1>4, <1>5 DEF Applied
<1>6. CASE ~success
  BY <1>1, <1>2, <1>3, <1>4, <1>6 DEF Applied
<1> QED
  BY <1>2, <1>5, <1>6

\* What is true of the values when a command has got an answer.
LEMMA AnsweredValues ==
  ASSUME NEW values, Answer(values),
         \A k \in Keys : saved'[k] \in values[k] /\ shown'[k] \in values[k]
  PROVE  KeyValues'
<1>1. cmd' = NoCommand /\ expected' = values
  BY DEF Answer
<1>2. \A v, k : ~Did(v, k)'
  BY <1>1 DEF Did, Applied
<1> QED
  BY <1>1, <1>2 DEF KeyValues

\* A command that was not answered leaves old and new values possible.
LEMMA UnsureValues ==
  ASSUME Loop, KeyValues, Unsure,
         \A k \in Keys : {saved'[k], shown'[k]} \subseteq {saved[k], shown[k]}
  PROVE  KeyValues'
<1> DEFINE values == [k \in Keys |-> expected[k] \cup MayHave(k)]
<1>2. \A k \in Keys : saved'[k] \in values[k] /\ shown'[k] \in values[k]
  BY ValuesAllowed
<1>3. Answer(values)
  BY DEF Unsure
<1> HIDE DEF values
<1> QED
  BY <1>2, <1>3, AnsweredValues

\* The commit failed.
LEMMA CommitFailedValues ==
  ASSUME Loop, KeyValues, stage = "commit", pc'[main] = "idle", pc[main] # "note", Committed(FALSE),
         shown' = shown, \A k \in Keys : saved'[k] \in {saved[k], shown[k]}
  PROVE  KeyValues'
<1>1. CASE cmd.name = "restore"
  <2>1. UNCHANGED <<cmd, at, failed, expected>>
    BY <1>1 DEF Committed, GoOn
  <2>2. \A v, k : Did(v, k)' <=> Did(v, k)
    BY <2>1, DidSame DEF Applied
  <2> QED
    BY <2>1, <2>2 DEF KeyValues
<1>2. CASE cmd.name # "restore"
  BY <1>2, UnsureValues DEF Committed
<1> QED
  BY <1>1, <1>2

\* The commit worked: the answer vouches for what was done.
LEMMA CommittedValues ==
  ASSUME Loop, KeyValues, stage = "commit", pc[main] # "note", Committed(TRUE),
         shown' = shown, \A k \in Keys : saved'[k] = shown[k]
  PROVE  KeyValues'
<1>1. /\ Proper(cmd) /\ cmd # NoCommand /\ at = Len(cmd.calls) + 1
      /\ Len(cmd.calls) \in Nat /\ DOMAIN cmd.calls = 1 .. Len(cmd.calls)
      /\ cmd.name \in {"put", "del"} => failed = {}
  BY LengthType DEF Loop
<1> DEFINE New(k) == {c.value : c \in {c \in Vouched(cmd) : c.key = k}}
<1>2. ASSUME NEW v, NEW k PROVE v \in New(k) <=> Did(v, k)
  <2>1. cmd.name \in {"put", "get", "del", "scan", "restore"}
    BY <1>1 DEF Proper, AllCommands
  <2>2. \A i \in DOMAIN cmd.calls : cmd.name \in {"get", "scan"} => cmd.calls[i].kind = "get"
    BY <1>1 DEF Proper
  <2>3. ASSUME NEW i
        PROVE  Applied(i) <=> /\ i \in DOMAIN cmd.calls /\ cmd.calls[i].kind # "get"
                              /\ cmd.name = "restore" => i \notin failed
    BY <1>1, <2>1, <2>2 DEF Applied
  <2>4. Vouched(cmd) = {cmd.calls[i] : i \in {i \in DOMAIN cmd.calls : Applied(i)}}
    BY <2>3 DEF Vouched
  <2>5. v \in New(k) <=> \E c \in Vouched(cmd) : c.key = k /\ c.value = v
    OBVIOUS
  <2> HIDE DEF New
  <2>6. (\E c \in Vouched(cmd) : c.key = k /\ c.value = v)
          <=> \E i \in DOMAIN cmd.calls : Applied(i) /\ cmd.calls[i].key = k /\ cmd.calls[i].value = v
    BY <2>4
  <2> QED
    BY <2>5, <2>6 DEF Did, Applied
<1> DEFINE values == [k \in Keys |-> IF New(k) = {} THEN expected[k] ELSE New(k)]
<1>3. Answer(values)
  BY DEF Committed, Done
<1> HIDE DEF New
<1>4. \A k \in Keys : shown[k] \in values[k]
  BY <1>2 DEF KeyValues
<1> HIDE DEF values
<1> QED
  BY <1>3, <1>4, AnsweredValues

------------------------------------------------------------------------------
(* KeyValues is inductive *)

\* A step that leaves the calls alone does nothing, but when a put is stored.
LEMMA AppliedSame ==
  ASSUME UNCHANGED <<cmd, at, failed>>,
         (pc'[main] = "note" <=> pc[main] = "note") \/ cmd.calls[at].kind = "get"
  PROVE  \A i : Applied(i)' <=> Applied(i)
BY DEF Applied

\* The values of a step of Work.
LEMMA WorkValues ==
  ASSUME Manager, Loop, CellsOK, Work
  PROVE  /\ disk' = disk => saved' = saved
         /\ cache' = cache /\ ~Stores => shown' = shown
         /\ \A k \in Keys : saved'[k] \in {saved[k], shown[k]}
<1>1. saved' = Saved /\ (cache' = cache /\ ~Stores => shown' = shown)
  BY DEF Work
<1> QED
  BY <1>1 DEF CellsOK, Saved

\* Nothing more is done.
LEMMA IdleValues ==
  ASSUME KeyValues, cmd' = cmd, \A i : Applied(i)' <=> Applied(i), expected' = expected,
         shown' = shown, \A k \in Keys : saved'[k] \in {saved[k], shown[k]}
  PROVE  KeyValues'
<1>1. \A v, k : Did(v, k)' <=> Did(v, k)
  BY DidSame
<1> QED
  BY <1>1 DEF KeyValues

\* A call has written its value.
LEMMA WrittenValues ==
  ASSUME CellsOK, KeyValues, DataWritten,
         cmd' = cmd, \A i : Applied(i)' <=> Applied(i) \/ i = at, expected' = expected
  PROVE  KeyValues'
<1> DEFINE c == cmd.calls[at]
<1>1. c.key \in Keys /\ saved' = saved /\ shown' = [shown EXCEPT ![c.key] = c.value]
  BY DEF DataWritten
<1>2. \A v, k : Did(v, k)' <=> Did(v, k) \/ (c.key = k /\ c.value = v)
  BY DidMore
<1> HIDE DEF c
<1> SUFFICES ASSUME NEW k \in Keys
             PROVE  /\ (saved[k] \in expected[k] \/ Did(saved[k], k))'
                    /\ (Did(shown[k], k) \/ (shown[k] \in expected[k] /\ ~ \E v : Did(v, k)))'
  BY DEF KeyValues
<1>p. PICK s, h : s = saved'[k] /\ h = shown'[k]
  OBVIOUS
<1>3. s \in expected'[k] \/ Did(s, k)'
  BY <1>p, <1>1, <1>2 DEF KeyValues
<1>4. Did(h, k)' \/ (h \in expected'[k] /\ ~ \E v : Did(v, k)')
  <2>1. CASE k # c.key
    <3>1. h = shown[k]
      BY <1>1, <1>p, <2>1 DEF CellsOK
    <3> QED
      BY <1>2, <2>1, <3>1 DEF KeyValues
  <2>2. CASE k = c.key
    <3>1. h = c.value
      BY <1>1, <1>p, <2>2 DEF CellsOK
    <3> QED
      BY <1>2, <2>2, <3>1
  <2> QED
    BY <2>1, <2>2
<1> QED
  BY <1>p, <1>3, <1>4

\* A step of a call: it writes or it does not, and what was done stays done.
LEMMA CallApplies ==
  ASSUME Manager, Loop, CellsOK, Fresh, Work, stage = "call"
  PROVE  /\ UNCHANGED <<cmd, expected, mine, run, disk>>
         /\ \/ cache' = cache /\ ~Stores /\ \A i : Applied(i)' <=> Applied(i)
            \/ DataWritten /\ \A i : Applied(i)' <=> Applied(i) \/ i = at
<1>0. main \in Threads /\ TMTypeOK /\ Control /\ cache \in [Keys -> Records]
  BY TheThread DEF Manager, TMTypeOK
<1>1. /\ ThreadStep(main) /\ ~Idle /\ UNCHANGED <<mine, run>>
      /\ pc'[main] # "idle" => UNCHANGED <<cmd, at, failed, expected>>
      /\ pc'[main] = "idle" => Returned(pc[main] = "note" \/ cache' # cache)
  BY <1>0, WorkCases DEF Work
<1>2. Proper(cmd) /\ at \in DOMAIN cmd.calls \ failed /\ cmd # NoCommand
  BY DEF Loop
<1>3. UNCHANGED <<cmd, expected>>
  BY <1>1 DEF Returned, GoOn
<1>4. InOperation(main) /\ op[main].kind = cmd.calls[at].kind /\ op[main].key \in Keys
  BY <1>1, CallOfCommand
<1>5. CallGoesOn \/ PutStores \/ CallFails \/ CallNotes \/ CallDeletes
  BY <1>0, <1>1, <1>4, WorkCases DEF InOperation, FlushWorks, FlushFails, CommitReturns
<1>6. disk' = disk
  BY <1>5 DEF CallGoesOn, PutStores, CallFails, CallNotes, CallDeletes, SameStore
<1>7. CASE CallGoesOn
  <2>1. /\ UNCHANGED <<cmd, at, failed, cache>> /\ pc[main] # "note"
        /\ pc'[main] = "note" => cmd.calls[at].kind = "get"
    BY <1>1, <1>4, <1>7 DEF CallGoesOn, SameStore, InOperation
  <2> QED
    BY <2>1, AppliedSame, <1>1, <1>3, <1>6, <1>7, OnlyPutStores
<1>8. CASE PutStores
  <2>1. DataWritten
    BY <1>8, WrittenStep
  <2>2. /\ UNCHANGED <<cmd, at, failed>> /\ cmd.calls[at].kind # "get"
        /\ pc[main] # "note" /\ pc'[main] = "note"
    BY <1>1, <1>8, <2>1 DEF PutStores, DataWritten
  <2>3. \A i : Applied(i)' <=> Applied(i) \/ i = at
    BY <1>2, <2>2 DEF Applied
  <2> QED
    BY <2>1, <2>3, <1>1, <1>3, <1>6
<1>9. CASE CallFails
  <2>1. Returned(FALSE) /\ pc'[main] = "idle" /\ pc[main] # "note" /\ cache' = cache
    BY <1>1, <1>9 DEF CallFails, SameStore
  <2>2. \A i : Applied(i)' <=> Applied(i)
    BY <2>1, ReturnedDid
  <2> QED
    BY <2>1, <2>2, <1>1, <1>3, <1>6, <1>9, OnlyPutStores
<1>10. CASE CallNotes
  <2>1. Returned(TRUE) /\ pc'[main] = "idle" /\ pc[main] = "note" /\ cache' = cache
    BY <1>1, <1>10 DEF CallNotes, SameStore
  <2>2. \A i : Applied(i)' <=> Applied(i) \/ (i = at /\ cmd.calls[at].kind # "get")
    BY <2>1, ReturnedDid
  <2>3. cmd.calls[at].kind # "get" => Applied(at)
    BY <1>2, <2>1 DEF Applied
  <2> QED
    BY <2>1, <2>2, <2>3, <1>1, <1>3, <1>6, <1>10, OnlyPutStores
<1>11. CASE CallDeletes
  <2>1. DataWritten /\ pc'[main] = "idle" /\ cmd.calls[at].kind = "delete"
    BY <1>4, <1>11, WrittenStep DEF CallDeletes
  <2>2. cache' # cache
    BY <1>11, DeleteIsNew
  <2>3. Returned(TRUE)
    BY <1>1, <2>1, <2>2
  <2>4. \A i : Applied(i)' <=> Applied(i) \/ (i = at /\ cmd.calls[at].kind # "get")
    BY <2>1, <2>3, ReturnedDid
  <2>5. \A i : Applied(i)' <=> Applied(i) \/ i = at
    BY <2>1, <2>4
  <2> QED
    BY <2>1, <2>5, <1>1, <1>3, <1>6
<1> QED
  BY <1>5, <1>7, <1>8, <1>9, <1>10, <1>11

\* A step of a call or of a commit.
LEMMA WorkKeyValues ==
  ASSUME Manager, Loop, CellsOK, SavedShown, Fresh, ReleaseWrote, KeyValues, Work
  PROVE  KeyValues'
<1>0. main \in Threads /\ TMTypeOK /\ Control /\ Ends /\ Clean
  BY TheThread DEF Manager
<1>1. /\ ThreadStep(main) /\ ~Idle /\ stage \in {"call", "commit"}
      /\ pc'[main] # "idle" => UNCHANGED <<cmd, at, failed, expected>>
  BY DEF Work, Loop
<1>2. CASE stage = "call"
  <2>1. cmd' = cmd /\ expected' = expected
    BY <1>2, CallApplies
  <2>2. CASE cache' = cache /\ ~Stores /\ \A i : Applied(i)' <=> Applied(i)
    BY <2>1, <2>2, WorkValues, IdleValues
  <2>3. CASE DataWritten /\ \A i : Applied(i)' <=> Applied(i) \/ i = at
    BY <2>1, <2>3, WrittenValues
  <2> QED
    BY <1>2, <2>2, <2>3, CallApplies
<1>3. CASE stage = "commit"
  <2>1. pc'[main] = "idle" => Committed(committed' # committed)
    BY <1>3 DEF Work
  <2>2. FlushWorks \/ FlushFails \/ CommitReturns
    <3>1. Committing(main)
      BY <1>1, <1>3 DEF Loop
    <3> QED
      BY <1>0, <1>1, <3>1, WorkCases
         DEF InOperation, Committing, CallGoesOn, PutStores, CallFails, CallNotes, CallDeletes
  <2>3. CASE FlushWorks
    <3>1. UNCHANGED <<cmd, at, failed, expected, cache>> /\ pc[main] # "note" /\ pc'[main] # "note"
      BY <1>1, <2>3 DEF FlushWorks
    <3> QED
      BY <2>3, <3>1, OnlyPutStores, AppliedSame, WorkValues, IdleValues
  <2>4. CASE FlushFails
    <3>1. /\ pc'[main] = "idle" /\ pc[main] # "note" /\ cache' = cache
          /\ Committed(FALSE)
      BY <2>1, <2>4 DEF FlushFails, NobodyEnds
    <3> QED
      BY <1>3, <2>4, <3>1, OnlyPutStores, WorkValues, CommitFailedValues
  <2>5. CASE CommitReturns
    <3>1. /\ pc'[main] = "idle" /\ pc[main] # "note"
          /\ UNCHANGED <<cache, disk>> /\ dirty = {}
      BY <2>5 DEF CommitReturns, SameStore, ReleaseWrote
    <3>2. committed' # committed
      <4>1. op[main].txn \in activeTxns
        BY <1>0, <1>1, TheThread DEF Manager, OwnTxns, Idle
      <4>2. Stamp(op[main].txn) \notin committed
        BY <1>0, <4>1, NotEnded
      <4> QED
        BY <2>5, <4>2 DEF CommitReturns
    <3>3. \A k \in Keys : saved'[k] = shown[k]
      BY <1>0, <3>1, WorkValues DEF Clean, SavedShown
    <3>4. Committed(TRUE)
      BY <2>1, <3>1, <3>2
    <3> QED
      BY <1>3, <2>5, <3>1, <3>3, <3>4, OnlyPutStores, WorkValues, CommittedValues
  <2> QED
    BY <2>2, <2>3, <2>4, <2>5
<1> QED
  BY <1>1, <1>2, <1>3

\* Each key has a value it may have, in the cache and in the file.
LEMMA KeyValuesStep ==
  ASSUME Manager, Loop, ProperBackup, CellsOK, SavedShown, Fresh, ReleaseWrote, KeyValues,
         [CLNext]_<<vars, cliVars>>
  PROVE  KeyValues'
<1>0. main \in Threads /\ TMTypeOK /\ Control
  BY TheThread DEF Manager
<1>1. CASE UNCHANGED <<vars, cliVars>> \/ Backup
  BY <1>1, AppliedSame, IdleValues DEF Backup, vars
<1>2. CASE Accept
  <2>1. /\ stage = "prompt" /\ stage' = "begin" /\ at' = 1 /\ failed' = {} /\ Idle'
        /\ UNCHANGED <<dataVars, expected>>
    BY <1>2 DEF Accept, Loop, Idle, vars
  <2>2. PICK c \in Commands : cmd' = c
    BY <1>2 DEF Accept
  <2>3. \A v, k : ~Did(v, k)
    BY <2>1, NothingDone
  <2>4. \A v, k : ~Did(v, k)'
    <3>1. Proper(c)
      BY CommandsProper, <2>2
    <3> QED
      BY <2>1, <2>2, <3>1, LengthType DEF Did, Applied, Idle
  <2> QED
    BY <2>1, <2>3, <2>4 DEF KeyValues
<1>3. CASE BeginTransaction
  <2>1. UNCHANGED <<cmd, at, failed, expected, dataVars, pc>>
    BY <1>3 DEF BeginTransaction, Begin, GoOn
  <2> QED
    BY <2>1, AppliedSame, IdleValues
<1>4. CASE MakeCall
  <2>1. stage = "call" /\ Idle /\ UNCHANGED dataVars
    BY <1>4 DEF MakeCall
  <2>2. CASE Active
    <3>1. UNCHANGED <<cmd, at, failed, expected>> /\ pc'[main] = "acquire" /\ pc[main] # "note"
      BY <1>0, <1>4, <2>1, <2>2 DEF MakeCall, Start, Idle, TMTypeOK
    <3> QED
      BY <2>1, <3>1, AppliedSame, IdleValues
  <2>3. CASE ~Active
    <3>1. Returned(FALSE) /\ pc'[main] = "idle" /\ pc[main] # "note" /\ expected' = expected
      BY <1>4, <2>1, <2>3 DEF MakeCall, Idle, Returned, GoOn, vars
    <3>2. cmd' = cmd /\ \A i : Applied(i)' <=> Applied(i)
      BY <2>1, <3>1, ReturnedDid
    <3> QED
      BY <2>1, <3>1, <3>2, IdleValues
  <2> QED
    BY <2>2, <2>3
<1>5. CASE Work
  BY <1>5, WorkKeyValues
<1>6. CASE Commit
  <2>1. stage = "commit" /\ pc[main] = "idle" /\ UNCHANGED dataVars /\ pc'[main] # "note"
    BY <1>0, <1>6 DEF Commit, CommitLog, EndFails, EndNotLogged, Idle, TMTypeOK, vars
  <2>2. CASE pc'[main] = "idle" /\ Committed(FALSE)
    BY <2>1, <2>2, CommitFailedValues
  <2>3. CASE UNCHANGED <<loopVars, expected>>
    BY <2>1, <2>3, AppliedSame, IdleValues
  <2>4. EndFails => pc'[main] = "idle"
    BY <2>1 DEF EndFails, EndNotLogged, vars
  <2> QED
    BY <1>6, <2>2, <2>3, <2>4 DEF Commit
<1>7. CASE AbortCommand
  <2>1. stage = "abort" /\ Idle /\ UNCHANGED dataVars
    BY <1>7 DEF AbortCommand
  <2>2. CASE cmd.name = "restore"
    BY <1>7, <2>1, <2>2, UnsureValues DEF AbortCommand
  <2>3. CASE cmd.name # "restore"
    <3>1. failed = DOMAIN cmd.calls /\ Answer(expected)
      BY <1>7, <2>1, <2>3 DEF AbortCommand, NotDone, Loop
    <3>2. \A v, k : ~Did(v, k)
      BY <3>1 DEF Did, Applied
    <3>3. \A k \in Keys : saved'[k] \in expected[k] /\ shown'[k] \in expected[k]
      BY <2>1, <3>2 DEF KeyValues
    <3> QED
      BY <3>1, <3>3, AnsweredValues
  <2> QED
    BY <2>2, <2>3
<1>8. CASE EndOfRun
  <2>1. Unsure /\ saved' = Saved /\ shown' = Saved
    BY <1>8 DEF EndOfRun
  <2>2. \A k \in Keys : {saved'[k], shown'[k]} \subseteq {saved[k], shown[k]}
    BY <2>1 DEF Saved
  <2> QED
    BY <2>1, <2>2, UnsureValues
<1> QED
  BY <1>1, <1>2, <1>3, <1>4, <1>5, <1>6, <1>7, <1>8 DEF CLNext, CommandStep

------------------------------------------------------------------------------
(* Fresh is inductive *)

\* A command begins under an id that no record bears.
LEMMA BeginIsFresh ==
  ASSUME Manager, Loop, StampsOld, BeginTransaction
  PROVE  Fresh'
<1>1. /\ mine'[main] \in {nextTxnId, INVALID_TXN_ID} /\ run' = run
      /\ UNCHANGED <<cache, disk>>
  BY TheThread DEF BeginTransaction, Begin, Manager, TMTypeOK
<1>2. nextTxnId \in Nat
  BY DEF Manager, TMTypeOK
<1>3. Stamp(mine[main])' = <<run, mine'[main]>>
  BY <1>1 DEF Stamp
<1> SUFFICES ASSUME mine'[main] # INVALID_TXN_ID, NEW k \in Keys
             PROVE  disk[k].by # <<run, nextTxnId>> /\ cache[k].by # <<run, nextTxnId>>
  BY <1>1, <1>3 DEF Fresh
<1>4. OldStamp(disk[k].by) /\ OldStamp(cache[k].by)
  BY DEF StampsOld
<1>5. ~OldStamp(<<run, nextTxnId>>)
  BY <1>2 DEF OldStamp
<1> QED
  BY <1>4, <1>5

\* What a call did stays done while the command makes the next.
LEMMA FreshKept ==
  ASSUME Fresh, stage = "call", UNCHANGED <<mine, run, disk, cmd>>,
         \A i : Applied(i) => Applied(i)',
         \A k \in Keys : cache'[k] = cache[k] \/ \E v : Did(v, k)'
  PROVE  Fresh'
<1>1. \A v, k : Did(v, k) => Did(v, k)'
  BY DEF Did
<1>2. Stamp(mine[main])' = Stamp(mine[main])
  BY DEF Stamp
<1> QED
  BY <1>1, <1>2 DEF Fresh

\* A record of the command's transaction is one that a call of it wrote.
LEMMA FreshStep ==
  ASSUME Manager, Loop, CellsOK, StampsOld, Fresh, [CLNext]_<<vars, cliVars>>
  PROVE  Fresh'
<1>0. main \in Threads /\ TMTypeOK /\ Control
  BY TheThread DEF Manager
<1>1. CASE UNCHANGED <<vars, cliVars>> \/ Backup
  <2>1. CASE stage = "call"
    <3>1. UNCHANGED <<cmd, at, failed, pc, mine, run, disk, cache>>
      BY <1>1 DEF Backup, vars
    <3> QED
      BY <2>1, <3>1, AppliedSame, FreshKept
  <2>2. CASE stage # "call"
    BY <1>1, <2>2 DEF Backup, Fresh
  <2> QED
    BY <2>1, <2>2
<1>2. CASE BeginTransaction
  BY <1>2, BeginIsFresh
<1>3. CASE MakeCall
  <2>1. stage = "call" /\ Idle /\ UNCHANGED <<mine, run, disk, cache>>
    BY <1>3 DEF MakeCall, Start, vars
  <2>2. CASE Active
    <3>1. UNCHANGED <<cmd, at, failed>> /\ pc'[main] = "acquire" /\ pc[main] # "note"
      BY <1>0, <1>3, <2>1, <2>2 DEF MakeCall, Start, Idle, TMTypeOK
    <3> QED
      BY <2>1, <3>1, AppliedSame, FreshKept
  <2>3. CASE ~Active
    <3>1. Returned(FALSE) /\ pc'[main] = "idle" /\ pc[main] # "note"
      BY <1>3, <2>1, <2>3 DEF MakeCall, Idle, vars
    <3>2. cmd' = cmd /\ \A i : Applied(i)' <=> Applied(i)
      BY <2>1, <3>1, ReturnedDid
    <3> QED
      BY <2>1, <3>2, FreshKept
  <2> QED
    BY <2>2, <2>3
<1>4. CASE Work
  <2>1. CASE stage = "call"
    <3>1. UNCHANGED <<cmd, mine, run, disk>>
      BY <1>4, <2>1, CallApplies
    <3>2. CASE cache' = cache /\ ~Stores /\ \A i : Applied(i)' <=> Applied(i)
      BY <2>1, <3>1, <3>2, FreshKept
    <3>3. CASE DataWritten /\ \A i : Applied(i)' <=> Applied(i) \/ i = at
      <4>1. ASSUME NEW k \in Keys PROVE cache'[k] = cache[k] \/ \E v : Did(v, k)'
        <5>1. CASE k = cmd.calls[at].key
          BY <3>1, <3>3, <5>1, DidMore
        <5>2. CASE k # cmd.calls[at].key
          BY <1>0, <3>3, <5>2 DEF DataWritten, TMTypeOK
        <5> QED
          BY <5>1, <5>2
      <4> QED
        BY <2>1, <3>1, <3>3, <4>1, FreshKept
    <3> QED
      BY <1>4, <2>1, <3>2, <3>3, CallApplies
  <2>2. CASE stage # "call"
    <3>1. stage' # "call"
      BY <1>4, <2>2 DEF Work, Loop, Committed, Done, Unsure, Answer, GoOn
    <3> QED
      BY <3>1 DEF Fresh
  <2> QED
    BY <2>1, <2>2
<1>5. CASE Accept \/ Commit \/ AbortCommand \/ EndOfRun
  <2>1. stage' # "call"
    BY <1>5
       DEF Accept, Commit, AbortCommand, EndOfRun, Committed, Done, Unsure, NotDone, Answer, GoOn
  <2> QED
    BY <2>1 DEF Fresh
<1> QED
  BY <1>1, <1>2, <1>3, <1>4, <1>5 DEF CLNext, CommandStep

\* A backup has keys and values.
LEMMA ProperBackupStep ==
  ASSUME Manager, CellsOK, ProperBackup, [CLNext]_<<vars, cliVars>>
  PROVE  ProperBackup'
<1>a. astray \subseteq Keys
  BY DEF Manager, TMTypeOK
<1>1. CASE Backup
  BY <1>a, <1>1, ScansProper DEF Backup, ProperBackup
<1>2. CASE backup' = backup
  BY <1>2 DEF ProperBackup
<1>3. Backup \/ backup' = backup
  BY DEF CLNext, CommandStep, Accept, BeginTransaction, MakeCall, Work, Commit, AbortCommand, EndOfRun,
         Returned, Committed, Done, Unsure, NotDone, Answer, GoOn
<1> QED
  BY <1>1, <1>2, <1>3

------------------------------------------------------------------------------
(* What is left open *)

\* The transactions that are open, but for the command's own, are those that a
\* failure left so; at the prompt there are no others.
LeftOpen ==
  /\ Cardinality(activeTxns \ {mine[main]}) <= failures
  /\ stage \in {"prompt", "begin"} => Cardinality(activeTxns) <= failures

\* The active transactions can be counted, and the next one is not among them.
LEMMA OpenFinite ==
  ASSUME Manager
  PROVE  IsFiniteSet(activeTxns) /\ nextTxnId \notin activeTxns /\ INVALID_TXN_ID \notin activeTxns
<1>1. nextTxnId \in Nat /\ activeTxns \subseteq Txns /\ \A t \in activeTxns : t < nextTxnId
  BY DEF Manager, TMTypeOK, Ids
<1>2. Txns \subseteq Nat /\ INVALID_TXN_ID \notin Txns
  BY TransactionManagerAssumption
<1>3. activeTxns \subseteq 0 .. nextTxnId /\ nextTxnId \notin activeTxns
  BY <1>1, <1>2
<1>4. IsFiniteSet(0 .. nextTxnId)
  BY <1>1, FS_Interval
<1> QED
  BY <1>1, <1>2, <1>3, <1>4, FS_Subset

\* A set has at most one element more than it has without x.
LEMMA WithoutOne ==
  ASSUME NEW A, IsFiniteSet(A), NEW x
  PROVE  /\ Cardinality(A) \in Nat /\ Cardinality(A \ {x}) \in Nat
         /\ Cardinality(A) <= Cardinality(A \ {x}) + 1
         /\ x \notin A => A \ {x} = A
<1>1. CASE x \in A
  BY <1>1, FS_RemoveElement, FS_CardinalityType
<1>2. CASE x \notin A
  <2>1. A \ {x} = A /\ Cardinality(A) \in Nat
    BY <1>2, FS_CardinalityType
  <2>2. Cardinality(A \ {x}) = Cardinality(A)
    BY <2>1
  <2> QED
    BY <2>1, <2>2
<1> QED
  BY <1>1, <1>2

\* A step of Work ends a transaction, or none.
LEMMA WorkLeavesOpen ==
  ASSUME Manager, Loop, LeftOpen, Work
  PROVE  LeftOpen'
<1> DEFINE A == activeTxns
<1> DEFINE m == mine[main]
<1>0. TMTypeOK /\ Control /\ failures \in Nat
  BY DEF Manager, TMTypeOK
<1>1. /\ ThreadStep(main) /\ ~Idle /\ mine' = mine
      /\ failures' \in {failures, failures + 1} /\ stage \in {"call", "commit"}
  BY <1>0, WorkCases DEF Work, Loop
<1>2. IsFiniteSet(A) /\ Cardinality(A \ {m}) <= failures
  BY OpenFinite DEF LeftOpen
<1>3. /\ Cardinality(A) \in Nat /\ Cardinality(A \ {m}) \in Nat
      /\ Cardinality(A) <= Cardinality(A \ {m}) + 1
  BY <1>2, WithoutOne
<1>4. CASE activeTxns' = activeTxns /\ stage' \notin {"prompt", "begin"}
  BY <1>0, <1>1, <1>2, <1>3, <1>4 DEF LeftOpen
<1>5. CASE FlushFails
  <2>1. failures' = failures + 1 /\ activeTxns' = activeTxns
    BY <1>5 DEF FlushFails, NobodyEnds
  <2> QED
    BY <1>0, <1>1, <1>2, <1>3, <2>1 DEF LeftOpen
<1>6. CASE CommitReturns
  <2>1. activeTxns' = A \ {m}
    BY <1>1, <1>6, TheThread DEF CommitReturns, Manager, OwnTxns, Idle
  <2>2. activeTxns' \ {mine'[main]} = A \ {m}
    BY <1>1, <2>1
  <2>3. Cardinality(activeTxns' \ {mine'[main]}) <= failures' /\ Cardinality(activeTxns') <= failures'
    BY <1>0, <1>1, <1>2, <1>3, <2>1, <2>2
  <2> QED
    BY <2>3 DEF LeftOpen
<1>7. FlushFails \/ CommitReturns \/ (activeTxns' = activeTxns /\ stage' \notin {"prompt", "begin"})
  <2>1. CASE stage = "call"
    <3>1. stage' \notin {"prompt", "begin"}
      BY <1>1, <2>1 DEF Work, Returned, GoOn
    <3>2. InOperation(main)
      BY <1>1, <2>1 DEF Loop
    <3> QED
      BY <1>0, <1>1, <3>1, <3>2, WorkCases
         DEF InOperation, CallGoesOn, PutStores, CallFails, CallNotes, CallDeletes, FlushWorks,
             NobodyEnds
  <2>2. CASE stage = "commit"
    <3>1. Committing(main)
      BY <1>1, <2>2 DEF Loop
    <3>2. FlushWorks \/ FlushFails \/ CommitReturns
      BY <1>0, <1>1, <3>1, WorkCases
         DEF InOperation, Committing, CallGoesOn, PutStores, CallFails, CallNotes, CallDeletes
    <3>3. FlushWorks => activeTxns' = activeTxns /\ stage' = stage
      BY <2>2 DEF FlushWorks, NobodyEnds, Work
    <3> QED
      BY <2>2, <3>2, <3>3
  <2> QED
    BY <1>1, <2>1, <2>2
<1> QED
  BY <1>4, <1>5, <1>6, <1>7

\* The end of a command ends its transaction, unless there is none or it fails.
LEMMA EndLeavesOpen ==
  ASSUME Manager, LeftOpen, mine' = mine,
         \/ activeTxns' = activeTxns \ {mine[main]} /\ failures' = failures
         \/ activeTxns' = activeTxns /\ failures' = failures + 1
         \/ activeTxns' = activeTxns /\ failures' = failures /\ ~Active
  PROVE  LeftOpen'
<1> DEFINE A == activeTxns
<1> DEFINE m == mine[main]
<1>1. IsFiniteSet(A) /\ Cardinality(A \ {m}) <= failures /\ failures \in Nat
  BY OpenFinite DEF LeftOpen, Manager, TMTypeOK
<1>2. /\ Cardinality(A) \in Nat /\ Cardinality(A \ {m}) \in Nat
      /\ Cardinality(A) <= Cardinality(A \ {m}) + 1
      /\ m \notin A => A \ {m} = A
  BY <1>1, WithoutOne
<1>3. (A \ {m}) \ {m} = A \ {m}
  OBVIOUS
<1> QED
  BY <1>1, <1>2, <1>3 DEF LeftOpen, Active

\* A transaction is left open by a failed commit and by nothing else.
LEMMA LeftOpenStep ==
  ASSUME Manager, Loop, LeftOpen, [CLNext]_<<vars, cliVars>>
  PROVE  LeftOpen'
<1> DEFINE A == activeTxns
<1> DEFINE m == mine[main]
<1>0. /\ main \in Threads /\ TMTypeOK /\ Control /\ failures \in Nat
      /\ IsFiniteSet(A) /\ nextTxnId \notin A /\ INVALID_TXN_ID \notin A
  BY TheThread, OpenFinite DEF Manager, TMTypeOK
<1>1. CASE UNCHANGED <<vars, cliVars>> \/ Accept \/ Backup
  BY <1>1 DEF Accept, Backup, LeftOpen, Loop, vars
<1>2. CASE BeginTransaction
  <2>1. /\ Cardinality(A) <= failures /\ Cardinality(A) \in Nat
        /\ activeTxns' = A \cup {nextTxnId} /\ stage' \notin {"prompt", "begin"}
    BY <1>0, <1>2, FS_CardinalityType DEF BeginTransaction, Begin, GoOn, LeftOpen
  <2>2. Cardinality(activeTxns') = Cardinality(A) + 1
    BY <1>0, <2>1, FS_AddElement
  <2>3. CASE mine'[main] = nextTxnId /\ failures' = failures
    <3>1. activeTxns' \ {mine'[main]} = A
      BY <1>0, <2>1, <2>3
    <3> QED
      BY <2>1, <2>3, <3>1 DEF LeftOpen
  <2>4. CASE mine'[main] = INVALID_TXN_ID /\ failures' = failures + 1
    <3>1. INVALID_TXN_ID # nextTxnId
      BY <1>2, TransactionManagerAssumption DEF BeginTransaction, Begin
    <3>2. activeTxns' \ {mine'[main]} = activeTxns'
      BY <1>0, <2>1, <2>4, <3>1
    <3>3. Cardinality(activeTxns' \ {mine'[main]}) = Cardinality(activeTxns')
      BY <3>2
    <3>4. Cardinality(activeTxns' \ {mine'[main]}) <= failures'
      BY <1>0, <2>1, <2>2, <2>4, <3>3
    <3> QED
      BY <2>1, <3>4 DEF LeftOpen
  <2> QED
    BY <1>0, <1>2, <2>3, <2>4 DEF BeginTransaction, Begin, Failure, TMTypeOK
<1>3. CASE MakeCall
  <2>1. UNCHANGED <<activeTxns, mine, failures>> /\ stage' \notin {"prompt", "begin"}
    BY <1>3 DEF MakeCall, Start, Returned, GoOn, vars
  <2> QED
    BY <2>1 DEF LeftOpen
<1>4. CASE Work
  BY <1>4, WorkLeavesOpen
<1>5. EndFails => /\ mine' = mine /\ activeTxns' = activeTxns
                  /\ failures' = failures + 1 \/ (failures' = failures /\ ~Active)
  BY DEF EndFails, EndNotLogged, Failure, vars
<1>6. CASE Commit
  <2>1. CASE CommitLog(main, m) /\ (pc'[main] = "idle" \/ UNCHANGED loopVars)
    <3>1. UNCHANGED <<mine, activeTxns>> /\ failures' \in {failures, failures + 1}
      BY <2>1 DEF CommitLog, Failure
    <3>2. CASE failures' = failures + 1
      BY <3>1, <3>2, EndLeavesOpen
    <3>3. CASE UNCHANGED <<failures, stage>>
      BY <3>1, <3>3 DEF LeftOpen
    <3>4. failures' = failures + 1 \/ UNCHANGED <<failures, stage>>
      BY <1>0, <1>6, <2>1 DEF Commit, CommitLog, Failure, TMTypeOK
    <3> QED
      BY <3>2, <3>3, <3>4
  <2>2. CASE EndFails
    BY <1>5, <2>2, EndLeavesOpen
  <2> QED
    BY <1>6, <2>1, <2>2 DEF Commit
<1>7. CASE AbortCommand
  <2>1. CASE Abort(main, m)
    BY <2>1, EndLeavesOpen DEF Abort
  <2>2. CASE EndFails
    BY <1>5, <2>2, EndLeavesOpen
  <2> QED
    BY <1>7, <2>1, <2>2 DEF AbortCommand
<1>8. CASE EndOfRun
  <2>1. activeTxns' = {} /\ failures' \in {failures, failures + 1}
    BY <1>0, <1>8, EndOfRunIsRestart DEF EndOfRun, Quit, Restart
  <2>2. Cardinality({}) = 0 /\ {} \ {mine'[main]} = {}
    BY FS_EmptySet
  <2> QED
    BY <1>0, <2>1, <2>2 DEF LeftOpen
<1> QED
  BY <1>1, <1>2, <1>3, <1>4, <1>6, <1>7, <1>8 DEF CLNext, CommandStep

------------------------------------------------------------------------------
(* The theorems *)

\* The inductive invariant.
CLInv ==
  /\ Manager /\ Loop /\ ProperBackup
  /\ CellsOK /\ StampsOld /\ SavedShown /\ Fresh /\ ReleaseWrote
  /\ KeyValues /\ LeftOpen

\* It holds when the program starts for the first time.
LEMMA CLInvInit ==
  ASSUME CLInit
  PROVE  CLInv
<1>0. /\ TMInit /\ stage = "prompt" /\ cmd = NoCommand /\ at = 1 /\ failed = {} /\ backup = <<>>
      /\ shown = [k \in Keys |-> IF k \in Stored THEN Content ELSE Nothing] /\ saved = shown
      /\ expected = [k \in Keys |-> {shown[k]}]
  BY DEF CLInit
<1>1. TMTypeOK /\ Control
  BY <1>0, TMTypeInit
<1>2. /\ activeTxns = {} /\ nextTxnId = 1 /\ run = 1 /\ failures = 0 /\ committed = {} /\ aborted = {}
      /\ cache = [k \in Keys |-> [by |-> NoStamp, present |-> k \in Stored]]
      /\ dirty = {} /\ disk = cache /\ order = {} /\ asleep = {}
      /\ readers = [k \in Keys |-> {}] /\ writers = [k \in Keys |-> {}]
      /\ txnLocks = [t \in Txns |-> {}] /\ call = [th \in Threads |-> NoCall]
      /\ pc = [th \in Threads |-> "idle"] /\ mine = [th \in Threads |-> INVALID_TXN_ID]
  BY <1>0 DEF TMInit, Init
<1>3. Ids
  BY <1>2 DEF Ids, INVALID_TXN_ID
<1>4. OwnTxns /\ CallIsOp /\ OnlyLateDeletes /\ Ends /\ Clean
  BY <1>2 DEF OwnTxns, CallIsOp, Waiting, OnlyLateDeletes, Ends, Clean
<1>5. main \in Threads /\ Idle
  BY <1>2, TheThread DEF Idle
<1>6. Loop
  BY <1>0, <1>5 DEF Loop
<1>7. ProperBackup
  <2>1. <<>> \in Seq([key : Keys, value : Seq(Characters)])
    OBVIOUS
  <2> QED
    BY <1>0, <2>1 DEF ProperBackup
<1>8. CellsOK /\ StampsOld
  <2>1. Content \in Seq(Characters) /\ Content # Nothing
    BY CommandLineAssumption
  <2>2. CellsOK
    BY <1>0, <1>2, <2>1 DEF CellsOK
  <2>3. OldStamp(NoStamp)
    BY <1>2 DEF OldStamp, NoStamp
  <2> QED
    BY <1>2, <2>2, <2>3 DEF StampsOld
<1>9. SavedShown /\ Fresh /\ ReleaseWrote
  BY <1>0, <1>2 DEF SavedShown, Fresh, ReleaseWrote
<1>10. KeyValues
  BY <1>0, NothingDone, <1>6 DEF KeyValues
<1>11. LeftOpen
  BY <1>2, FS_EmptySet DEF LeftOpen
<1> QED
  BY <1>1, <1>3, <1>4, <1>6, <1>7, <1>8, <1>9, <1>10, <1>11 DEF CLInv, Manager

\* Every step keeps it.
LEMMA CLInvStep ==
  ASSUME CLInv, [CLNext]_<<vars, cliVars>>
  PROVE  CLInv'
<1>1. Manager' /\ Loop' /\ ProperBackup'
  BY CommandIsClientStep, ManagerStep, LoopStep, ProperBackupStep DEF CLInv
<1>2. CellsOK' /\ StampsOld' /\ SavedShown' /\ Fresh' /\ ReleaseWrote'
  BY CellsStep, StampsOldStep, SavedShownStep, FreshStep, ReleaseWroteStep DEF CLInv
<1>3. KeyValues' /\ LeftOpen'
  BY KeyValuesStep, LeftOpenStep DEF CLInv
<1> QED
  BY <1>1, <1>2, <1>3 DEF CLInv

\* So it holds in every state.
LEMMA CLInvHolds == CLSpec => []CLInv
BY CLInvInit, CLInvStep, PTL DEF CLSpec

\* Whatever the commands are and whatever fails, the command loop does with the
\* transaction manager only what TransactionManager lets a client do (main.cpp:181-501).
THEOREM CommandsAreTransactions == CLSpec => TMSpec
<1>1. CLInit => TMInit
  BY DEF CLInit
<1>2. CLInv /\ [CLNext]_<<vars, cliVars>> => [TMNext]_vars
  BY CommandIsClientStep DEF CLInv
<1> QED
  BY <1>1, <1>2, CLInvHolds, PTL DEF CLSpec, TMSpec

\* So what a command committed is in the file, and in the log with its COMMIT entry,
\* when the answer is printed (main.cpp:196, 249; transaction.cpp:54-70).
THEOREM CommandsAreDurable == CLSpec => [](CommittedIsOnDisk /\ CommittedIsLogged)
<1>1. TMSpec => []CommittedIsOnDisk /\ []CommittedIsLogged
  BY TheThread, CommittedIsWritten, CommittedIsRecoverable
<1> QED
  BY <1>1, CommandsAreTransactions, PTL

\* The loop's variables keep their types, and a command is where its stage says.
THEOREM CLTypeCorrect == CLSpec => []CLTypeOK
<1>1. ASSUME CLInv PROVE CLTypeOK
  <2>1. cmd # NoCommand => Len(cmd.calls) \in Nat /\ DOMAIN cmd.calls = 1 .. Len(cmd.calls)
    BY <1>1, LengthType DEF CLInv, Loop
  <2>2. stage \in {"call", "commit"} => at \in 1 .. Len(cmd.calls) + 1
    <3>1. CASE stage = "call"
      BY <1>1, <2>1, <3>1 DEF CLInv, Loop
    <3>2. CASE stage = "commit"
      BY <1>1, <2>1, <3>2 DEF CLInv, Loop
    <3> QED
      BY <3>1, <3>2
  <2>3. stage = "call" => at <= Len(cmd.calls)
    BY <1>1, <2>1 DEF CLInv, Loop
  <2> QED
    BY <1>1, <2>2, <2>3 DEF CLInv, CLTypeOK, Loop, CellsOK
<1> QED
  BY <1>1, CLInvHolds, PTL

\* What the answers say of a key that did not go astray stays true of the cache and of
\* the file, for any keys, values and backup files, through failures, crashes and
\* restarts, whatever was put or deleted beside it
\* (main.cpp:188-204, 241-257, 487-499; storage.cpp:320-324, 501, 685-688).
THEOREM AnswersAreKept == CLSpec => []Promises
<1>1. CLInv => Promises
  BY ValuesKeepPromises DEF CLInv
<1> QED
  BY <1>1, CLInvHolds, PTL

\* At the prompt, each transaction that is open stands for a failure, and nothing
\* else is locked (main.cpp:190-197, 228, 243-250, 487-496).
THEOREM PromptIsClean == CLSpec => []CleanPrompt
<1>1. ASSUME CLInv PROVE CleanPrompt
  <2> SUFFICES ASSUME cmd = NoCommand
               PROVE  /\ Cardinality(activeTxns) <= failures
                      /\ \A t \in Txns : txnLocks[t] # {} => t \in activeTxns
    BY DEF CleanPrompt
  <2>1. stage = "prompt" /\ Idle
    BY <1>1 DEF CLInv, Loop
  <2>2. \A t : ~LateDelete(t)
    BY <2>1, TheThread DEF LateDelete, Acquired, Idle
  <2> QED
    BY <1>1, <2>1, <2>2 DEF CLInv, LeftOpen, Manager, OnlyLateDeletes
<1> QED
  BY <1>1, CLInvHolds, PTL

================================================================================
