------------------------------ MODULE FSStoreFile ------------------------------
(***************************************************************************)
(* core/fs-store/src/fs-store-file.ts: one FSStoreFile object, whose        *)
(* methods are called at the same time, the part of FSStoreClient that      *)
(* keeps its requests, and another process that writes the same file.       *)
(*                                                                         *)
(* The server is the real resolver of the file (FilePermissionResolver);    *)
(* the permits of its pool are in FSStoreServer.  A request reaches it when   *)
(* it is sent, its answer is on the way for any time.  An answer and what    *)
(* the method does with it are one step.  In a transaction the methods take no access and no lock: a      *)
(* call that overlaps a transaction of another caller acts inside it         *)
(* ("inside").                                                             *)
(***************************************************************************)
EXTENDS Naturals, Sequences, FiniteSets, SequencesExt

CONSTANTS
  OwnCalls,          \* the calls of the object's methods, each once
  TransactionCalls,  \* bound: those among them that can only be transactions
  OtherCalls         \* the writes of the other process

ASSUME FileAssumption ==
  /\ IsFiniteSet(OwnCalls) /\ IsFiniteSet(OtherCalls) /\ TransactionCalls \subseteq OwnCalls
  /\ OwnCalls \cap OtherCalls = {} /\ {"init", "none"} \cap (OwnCalls \cup OtherCalls) = {}

VARIABLES
  lockAtStart,      \* chosen once: options.lock
  fsFails,          \* chosen once: the file system may fail
  initPromise,
  fileState,
  lockQueue,
  transactionQueue,
  fileCall,         \* the calls
  request,          \* the requests by id, as the client knows them
  fpr,              \* the resolver
  barged            \* a transaction began while another one was being woken

fileModes == <<lockAtStart, fsFails>>
fileVars == <<fileModes, initPromise, fileState, lockQueue, transactionQueue, fileCall, request, fpr, barged>>

FileCalls == OwnCalls \cup OtherCalls
IdOf(c, action) == <<c, action>>
InitId == IdOf("init", "lock")
FileIds == {InitId} \cup (FileCalls \X {"lock", "access", "unlink"})
NoId == <<>>

Process(i) == IF i[1] \in OtherCalls THEN "there" ELSE "here"
Resolver == INSTANCE FilePermissionResolver WITH
  Clients <- {"here", "there"}, Requests <- FileIds, fpr <- fpr, refusals <- FALSE, cleaning <- FALSE,
  Client <- [i \in FileIds |-> Process(i)]

Kinds == {"write", "transaction", "lock", "unlockAll", "unlink", "waitForUnlock"}

\* at of a request: with the server, told of a grant or refusal, released, and gone from
\* reqHash.  cb: the call that its callback belongs to.
FileTypeOK ==
  /\ lockAtStart \in BOOLEAN /\ fsFails \in BOOLEAN /\ barged \in BOOLEAN
  /\ initPromise \in {"asked", "releasing", "done"}
  /\ fileState \in [enterTransaction : BOOLEAN, inTransaction : BOOLEAN, valid : BOOLEAN,
                    accessId : FileIds \cup {NoId}]
  /\ lockQueue \in Seq(FileIds) /\ transactionQueue \in Seq(OwnCalls)
  /\ fileCall \in [FileCalls -> [kind : Kinds \cup {"none"}, inside : BOOLEAN, frees : SUBSET FileIds,
       at : {"new", "queued", "woken", "ask", "asked", "io", "toLock", "locking", "body", "locked",
             "freeing", "ending", "toUnlock", "unlocking", "over", "failed"}]]
  /\ request \in [FileIds -> [at : {"none", "there", "told", "freed", "gone"},
                              cb : FileCalls \cup {"init", "none"}]]
  /\ Resolver!TypeOK

\* The constructor: init() asks for a lock, ensureName() or lock().
FileInit ==
  /\ lockAtStart \in BOOLEAN /\ fsFails \in BOOLEAN /\ barged = FALSE
  /\ initPromise = "asked"
  /\ fileState = [enterTransaction |-> FALSE, inTransaction |-> FALSE, valid |-> TRUE, accessId |-> NoId]
  /\ lockQueue = <<>> /\ transactionQueue = <<>>
  /\ fileCall = [c \in FileCalls |-> [kind |-> "none", inside |-> FALSE, frees |-> {}, at |-> "new"]]
  /\ request = [i \in FileIds |-> IF i = InitId THEN [at |-> "there", cb |-> "init"]
                                               ELSE [at |-> "none", cb |-> "none"]]
  /\ fpr = Resolver!Lock(Resolver!New, InitId)

-----------------------------------------------------------------------------
(* The client and the server                                               *)

\* A request: the server answers it when the resolver has granted or refused it.
Asks(c, action) ==
  LET i == IdOf(c, action) IN
  /\ request' = [request EXCEPT ![i] = [at |-> "there", cb |-> c]]
  /\ fpr' = CASE action = "lock" -> Resolver!Lock(fpr, i)
              [] action = "access" -> Resolver!HookAccess(fpr, i)
              [] action = "unlink" -> Resolver!HookUnlink(fpr, i)

AccessTold(i) == [request EXCEPT ![i].at = "told"]

\* The server's ReleaseAction(): a lock that was refused is unlocked all the same.
ServerReleases(f, i) ==
  CASE f.held[i] = "lock" -> Resolver!LockReleased(f, i)
    [] f.held[i] = "access" -> Resolver!AccessReleased(f, i)
    [] f.held[i] = "unlink" -> Resolver!UnlinkReleased(f, i)
    [] f.held[i] = "refused" /\ i[2] = "lock" -> Resolver!Unlock(Resolver!Tell(f, i, "over"), Process(i))
    [] OTHER -> Resolver!Tell(f, i, "over")

\* The releases reach the server in their order.
AfterReleases(ids) ==
  LET after[k \in 0..Len(ids)] ==
        IF k = 0 THEN fpr
        ELSE IF request[ids[k]].at \in {"there", "told"} THEN ServerReleases(after[k - 1], ids[k])
        ELSE after[k - 1]
  IN after[Len(ids)]

\* release(): an id that is not in reqHash any more is not released and its callback never
\* called; the callback of one that is being released is replaced.
Releases(ids, c) ==
  /\ request' = [i \in FileIds |->
       IF i \notin ToSet(ids) \/ request[i].at = "gone" THEN request[i] ELSE [at |-> "freed", cb |-> c]]
  /\ fpr' = AfterReleases(ids)

Go(c, place) == [fileCall EXCEPT ![c].at = place]

-----------------------------------------------------------------------------
(* The methods                                                             *)

InTransaction == fileState.inTransaction
InitDone == initPromise = "done"

\* The answer to init()'s lock: kept, or released at once by ensureName().
InitAnswered ==
  /\ \/ /\ initPromise = "asked" /\ request[InitId].at = "there"
        /\ IF lockAtStart
           THEN /\ request' = AccessTold(InitId)
                /\ lockQueue' = Append(lockQueue, InitId) /\ initPromise' = "done" /\ UNCHANGED fpr
           ELSE /\ Releases(<<InitId>>, "init") /\ initPromise' = "releasing"
                /\ UNCHANGED lockQueue
     \/ /\ initPromise = "releasing" /\ request[InitId].at = "freed"
        /\ request' = [request EXCEPT ![InitId].at = "gone"] /\ initPromise' = "done"
        /\ UNCHANGED <<lockQueue, fpr>>
  /\ UNCHANGED <<fileModes, fileState, transactionQueue, fileCall, barged>>

Others == <<fileModes, initPromise, transactionQueue, barged>>
Server == <<request, fpr>>

Kind(c, kind) == [fileCall EXCEPT ![c].kind = kind]

\* write(), read(), append() and stat(): getAccess() returns at once in a transaction.
Write(c) ==
  /\ fileCall[c].at = "new" /\ (InitDone \/ c \in OtherCalls)
  /\ IF InTransaction /\ c \in OwnCalls
     THEN /\ fileCall' = [Kind(c, "write") EXCEPT ![c] = [@ EXCEPT !.at = "io", !.inside = TRUE]]
          /\ UNCHANGED Server
     ELSE fileCall' = [Kind(c, "write") EXCEPT ![c].at = "asked"] /\ Asks(c, "access")
  /\ UNCHANGED <<Others, fileState, lockQueue>>

\* Answers arrive in the order in which they were sent: that to a release of the access
\* before the next grant.
InOrder(c) == c \in OwnCalls => \A i \in FileIds : i[2] = "access" /\ Process(i) = "here" => request[i].at # "freed"

\* The answer to getAccess(), whatever it is: the id is kept as that of the access.
AccessAnswered(c) ==
  LET i == IdOf(c, "access") IN
  /\ fileCall[c].at = "asked" /\ request[i].at = "there"
  /\ fpr.held[i] \in {"access", "refused"} /\ InOrder(c)
  /\ request' = AccessTold(i)
  /\ UNCHANGED fpr
  /\ fileState' = IF c \in OtherCalls THEN fileState ELSE [fileState EXCEPT !.accessId = i]
  /\ fileCall' = Go(c, IF fileCall[c].kind = "transaction" THEN "toLock" ELSE "io")
  /\ UNCHANGED <<Others, lockQueue>>

\* releaseAccess(): the id that is kept, none inside a transaction.
AccessToFree(c) ==
  IF c \in OtherCalls THEN <<IdOf(c, "access")>>
  ELSE IF InTransaction \/ fileState.accessId = NoId THEN <<>> ELSE <<fileState.accessId>>

Frees(c, place, ids) ==
  /\ fileCall' = [fileCall EXCEPT ![c] = [@ EXCEPT !.at = place, !.frees = ToSet(ids)]]
  /\ Releases(ids, c)

\* The file has been written, or the file system failed and releaseAccess() is not reached.
IoEnds(c) ==
  /\ fileCall[c].at = "io"
  /\ \/ Frees(c, "freeing", AccessToFree(c))
     \/ fsFails /\ fileCall' = Go(c, "failed") /\ UNCHANGED Server
  /\ UNCHANGED <<Others, fileState, lockQueue>>

\* The caller of lock() waits for the constructor.
CallLock(c) ==
  /\ fileCall[c].at = "new" /\ InitDone
  /\ fileCall' = [Kind(c, "lock") EXCEPT ![c].at = "toLock"]
  /\ UNCHANGED <<Others, fileState, lockQueue, Server>>

Locked(c) == IF fileCall[c].kind = "transaction" THEN "body" ELSE "locked"

\* lock(), also that of startTransaction(): at once in a transaction.
GetLock(c) ==
  /\ fileCall[c].at = "toLock"
  /\ IF InTransaction
     THEN fileCall' = [fileCall EXCEPT ![c] = [@ EXCEPT !.at = Locked(c), !.inside = TRUE]] /\ UNCHANGED Server
     ELSE fileCall' = Go(c, "locking") /\ Asks(c, "lock")
  /\ UNCHANGED <<Others, fileState, lockQueue>>

\* The answer, whatever it is: the id goes to the queue; a transaction has begun.
LockAnswered(c) ==
  LET i == IdOf(c, "lock") IN
  /\ fileCall[c].at = "locking" /\ request[i].at = "there"
  /\ request' = AccessTold(i) /\ lockQueue' = Append(lockQueue, i)
  /\ fileCall' = Go(c, Locked(c))
  /\ fileState' = [fileState EXCEPT !.inTransaction = @ \/ fileCall[c].kind = "transaction"]
  /\ UNCHANGED <<Others, fpr>>

\* Mutant: nobody waits for the transaction that is under way.
MustQueue_Never == FALSE
MustQueue == fileState.enterTransaction

Enter(c, calls) ==
  /\ fileState' = [fileState EXCEPT !.enterTransaction = TRUE]
  /\ fileCall' = [calls EXCEPT ![c] = [@ EXCEPT !.at = IF InTransaction THEN "toLock" ELSE "ask",
                                              !.inside = InTransaction]]

\* startTransaction(): waits once for its turn, and does not look again when it is woken.
StartTransaction(c) ==
  /\ \/ /\ fileCall[c].at = "new" /\ MustQueue
        /\ fileCall' = [Kind(c, "transaction") EXCEPT ![c].at = "queued"]
        /\ transactionQueue' = Append(transactionQueue, c) /\ UNCHANGED <<fileState, barged>>
     \/ /\ fileCall[c].at = "new" /\ ~MustQueue /\ Enter(c, Kind(c, "transaction"))
        /\ barged' = (barged \/ \E d \in OwnCalls : fileCall[d].at = "woken") /\ UNCHANGED transactionQueue
     \/ fileCall[c].at = "woken" /\ Enter(c, fileCall) /\ UNCHANGED <<transactionQueue, barged>>
  /\ UNCHANGED <<fileModes, initPromise, fpr, lockQueue, request>>

AskAccess(c) ==
  /\ fileCall[c].at = "ask" /\ InitDone
  /\ fileCall' = Go(c, "asked") /\ Asks(c, "access")
  /\ UNCHANGED <<Others, fileState, lockQueue>>

\* endTransaction(), when the callback is over: it may have failed and used the file.
EndTransaction(c) ==
  LET ended == [fileState EXCEPT !.inTransaction = FALSE] IN
  /\ fileCall[c].at = "body" /\ fileState' = ended
  /\ Frees(c, "ending", IF fileState.accessId = NoId THEN <<>> ELSE <<fileState.accessId>>)
  /\ UNCHANGED <<Others, lockQueue>>

\* A call is over; the next transaction in the queue is woken by one that ends.
Over(c, requests) ==
  LET ends == fileCall[c].kind = "transaction"
      next == IF ends /\ transactionQueue # <<>> THEN {Head(transactionQueue)} ELSE {}
  IN /\ fileCall' = [d \in FileCalls |->
            IF d = c THEN [fileCall[d] EXCEPT !.at = "over", !.frees = {}]
            ELSE IF d \in next THEN [fileCall[d] EXCEPT !.at = "woken"] ELSE fileCall[d]]
     /\ transactionQueue' = IF next = {} THEN transactionQueue ELSE Tail(transactionQueue)
     /\ fileState' = [fileState EXCEPT !.enterTransaction = @ /\ ~ends,
                                       !.accessId = IF fileCall[c].at = "freeing" /\ c \in OwnCalls
                                                       /\ fileCall[c].frees # {} THEN NoId ELSE @]
     /\ request' = requests

\* Mutant: the id stays in the queue.
Popped_Kept == lockQueue
Popped == Front(lockQueue)

\* unlock(), also that of endTransaction(): the last id of the queue.
CallUnlock(c) ==
  /\ fileCall[c].at \in {"locked", "toUnlock"}
  /\ IF InTransaction \/ lockQueue = <<>>
     THEN Over(c, request) /\ UNCHANGED <<lockQueue, fpr>>
     ELSE /\ Frees(c, "unlocking", <<Last(lockQueue)>>) /\ lockQueue' = Popped
          /\ UNCHANGED <<fileState, transactionQueue>>
  /\ UNCHANGED <<fileModes, initPromise, barged>>

\* unlockAll(): all are released, and stay in the queue.
UnlockAll(c) ==
  /\ fileCall[c].at = "new"
  /\ LET ids == IF InTransaction THEN <<>> ELSE lockQueue IN
     /\ fileCall' = [fileCall EXCEPT ![c] = [@ EXCEPT !.kind = "unlockAll", !.at = "unlocking", !.frees = ToSet(ids)]]
     /\ Releases(ids, c)
  /\ UNCHANGED <<Others, fileState, lockQueue>>

\* The answers to the releases of a call: their ids leave reqHash.
ReleaseAnswered(c) ==
  LET ids == fileCall[c].frees
      gone == [i \in FileIds |-> IF i \in ids THEN [at |-> "gone", cb |-> "none"] ELSE request[i]]
  IN /\ \A i \in ids : request[i].at = "freed" /\ request[i].cb = c
     /\ \/ fileCall[c].at \in {"freeing", "unlocking"} /\ Over(c, gone)
        \/ /\ fileCall[c].at = "ending" /\ request' = gone
           /\ fileState' = IF ids = {} THEN fileState ELSE [fileState EXCEPT !.accessId = NoId]
           /\ fileCall' = [fileCall EXCEPT ![c] = [@ EXCEPT !.at = "toUnlock", !.frees = {}]]
           /\ UNCHANGED transactionQueue
     /\ UNCHANGED <<fileModes, initPromise, lockQueue, fpr, barged>>

\* unlink() and waitForUnlock() do not wait for the constructor; unlink() throws while a
\* transaction is under way.
Unlink(c) ==
  /\ fileCall[c].at = "new"
  /\ \E kind \in {"unlink", "waitForUnlock"} :
       IF kind = "unlink" /\ fileState.enterTransaction
       THEN fileCall' = [Kind(c, kind) EXCEPT ![c].at = "over"] /\ UNCHANGED Server
       ELSE fileCall' = [Kind(c, kind) EXCEPT ![c].at = "asked"] /\ Asks(c, "unlink")
  /\ UNCHANGED <<Others, fileState, lockQueue>>

\* The permission to delete: released without waiting, by waitForUnlock() at once, by
\* unlink() when the file is deleted, never when that fails.
UnlinkGranted(c) ==
  LET i == IdOf(c, "unlink") IN
  /\ fileCall[c].at = "asked" /\ request[i].at = "there" /\ fpr.held[i] = "unlink"
  /\ \/ /\ fileCall' = Go(c, "over") /\ Releases(<<i>>, "none")
        /\ fileState' = [fileState EXCEPT !.valid = @ /\ fileCall[c].kind = "waitForUnlock"]
     \/ /\ fsFails /\ fileCall[c].kind = "unlink"
        /\ fileCall' = Go(c, "failed") /\ request' = AccessTold(i) /\ UNCHANGED <<fileState, fpr>>
  /\ UNCHANGED <<Others, lockQueue>>

\* Messages arrive, methods go on, callers unlock what they locked.
FileProgress ==
  \/ InitAnswered
  \/ \E c \in FileCalls : AccessAnswered(c) \/ IoEnds(c) \/ ReleaseAnswered(c)
  \/ \E c \in OwnCalls : \/ GetLock(c) \/ LockAnswered(c) \/ AskAccess(c) \/ EndTransaction(c)
                         \/ CallUnlock(c) \/ UnlinkGranted(c)
                         \/ fileCall[c].at = "woken" /\ StartTransaction(c)

FileNext ==
  \/ FileProgress
  \/ \E c \in FileCalls \ TransactionCalls : Write(c)
  \/ \E c \in OwnCalls \ TransactionCalls : CallLock(c) \/ UnlockAll(c) \/ Unlink(c)
  \/ \E c \in OwnCalls : StartTransaction(c)

FileSpec == FileInit /\ [][FileNext]_fileVars
FairFileSpec == FileSpec /\ WF_fileVars(FileProgress)

-----------------------------------------------------------------------------
(* What the object promises                                                *)

\* Somebody got the permission to delete the file (a refused lock that is released then
\* makes it free again); a call acted in the transaction of another or barged in;
\* somebody called unlockAll().
Deleted == \E c \in OwnCalls : fpr.held[IdOf(c, "unlink")] \in {"unlink", "over"}
Overlapped == barged \/ \E c \in OwnCalls : fileCall[c].inside
AllUnlocked == \E c \in OwnCalls : fileCall[c].kind = "unlockAll"

AtWork(c) == fileCall[c].at \in {"io", "toLock", "locking", "body"} /\ fileCall[c].kind # "lock"

\* Whoever works on the file has the access to it under the id of its own call, which is
\* the one that will be released: one call of this object or of the other process at a
\* time, unless calls overlapped or the file was deleted.
AccessIsMine ==
  ~Overlapped /\ ~Deleted => \A c \in FileCalls : AtWork(c) =>
    /\ fpr.held[IdOf(c, "access")] = "access"
    /\ c \in OwnCalls => fileState.accessId = IdOf(c, "access")

\* The lock queue holds the locks that the server has granted and nobody is releasing,
\* whatever the order of calls and answers, unless a lock was refused or unlockAll() came.
LocksMatch ==
  ~Deleted /\ ~AllUnlocked =>
    /\ IsInjective(lockQueue)
    /\ ToSet(lockQueue) = {i \in FileIds : i[2] = "lock" /\ request[i].at = "told"}
    /\ \A i \in ToSet(lockQueue) : fpr.held[i] = "lock"

\* Transactions run one at a time, in the order in which they asked, unless one barged in.
OneTransaction ==
  ~barged => Cardinality({c \in OwnCalls : fileCall[c].kind = "transaction"
                            /\ fileCall[c].at \notin {"queued", "over"}}) <= 1

\* In the end every call is over, or waits to delete a file that is locked, and nobody
\* has the access, unless the file system failed, calls overlapped, the file was deleted, or unlockAll() came.
FileQuiet ==
  (\A c \in FileCalls : fileCall[c].at # "failed") /\ ~Overlapped /\ ~Deleted /\ ~AllUnlocked =>
    /\ \A c \in FileCalls :
         fileCall[c].at \in {"new", "over"} \/ (fpr.held[IdOf(c, "unlink")] = "queued" /\ lockQueue # <<>>)
    /\ ~fpr.accessing
=============================================================================
