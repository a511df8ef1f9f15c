---------------------------- MODULE PollingService ----------------------------
(***************************************************************************)
(* The simulated polling service (mockld/polling_service.go).  Every poll  *)
(* is a goroutine of its own; SetData and SetEtag are called by the test's *)
(* goroutine.  They share one lock, which a poll takes once, reads the     *)
(* etag and then the data, and releases on all of its paths but one: when  *)
(* the data set is one that is deliberately unavailable, the handler       *)
(* returns with the lock held.                                             *)
(***************************************************************************)
EXTENDS Naturals

CONSTANTS Polls,        \* the requests that SDKs may send
          Etags,        \* the values that tests give to SetEtag
          MaxVersion,   \* bound on the versions of the data set
          Unavailable,  \* the versions for which Serialize() is nil
          Gzip          \* whether the service compresses its responses

NoEtag == "no etag"
EtagOrNone == Etags \union {NoEtag}
Free == "free"

ASSUME ConstantsAssumption ==
    /\ MaxVersion \in Nat \ {0}
    /\ Unavailable \subseteq 1..MaxVersion
    /\ Gzip \in BOOLEAN
    /\ Free \notin Polls

VARIABLES
    currentData,  \* the version of the data set
    currentEtag,
    lock,         \* the poll that holds the lock, or Free
    setting,      \* the call of SetData or SetEtag in progress, if any
    poll,         \* poll[p]: the request and, in the end, its response
    moments       \* history: moments[p], the (etag, data) pairs that have
                  \* been current since p arrived

vars == <<currentData, currentEtag, lock, setting, poll, moments>>

NotSetting == [call |-> "none"]
NewPoll == [at |-> "new"]
Request == [ifNoneMatch : EtagOrNone, key : {"all", "known", "unknown"}, gzip : BOOLEAN]

Init ==
    /\ currentData = 1
    /\ currentEtag = NoEtag
    /\ lock = Free
    /\ setting = NotSetting
    /\ poll = [p \in Polls |-> NewPoll]
    /\ moments = [p \in Polls |-> {}]

Answered(p) == poll[p].at = "answered"
InProgress(p) == poll[p].at \in {"waiting", "reading"}
Answer(p, status, etag, data) ==
    poll' = [poll EXCEPT ![p] = [at |-> "answered", req |-> @.req, status |-> status,
                                 etag |-> etag, data |-> data]]

\* Recorded by the steps that change the data or the etag.
Observe(etag, data) ==
    moments' = [p \in Polls |-> IF InProgress(p)
                                THEN moments[p] \union {<<etag, data>>}
                                ELSE moments[p]]

-------------------------------------------------------------------------------
(* The test's goroutine. *)

CallSetData ==
    /\ setting = NotSetting
    /\ currentData < MaxVersion
    /\ setting' = [call |-> "data", value |-> currentData + 1]
    /\ UNCHANGED <<currentData, currentEtag, lock, poll, moments>>

CallSetEtag ==
    /\ setting = NotSetting
    /\ \E e \in Etags : setting' = [call |-> "etag", value |-> e]
    /\ UNCHANGED <<currentData, currentEtag, lock, poll, moments>>

SetData ==
    /\ setting.call = "data"
    /\ lock = Free
    /\ currentData' = setting.value
    /\ setting' = NotSetting
    /\ Observe(currentEtag, setting.value)
    /\ UNCHANGED <<currentEtag, lock, poll>>

\* Fault: assigns the field of SetData.
SetEtag_WrongField ==
    /\ setting.call = "etag"
    /\ lock = Free
    /\ currentData' = setting.value
    /\ setting' = NotSetting
    /\ Observe(currentEtag, setting.value)
    /\ UNCHANGED <<currentEtag, lock, poll>>

SetEtag ==
    /\ setting.call = "etag"
    /\ lock = Free
    /\ currentEtag' = setting.value
    /\ setting' = NotSetting
    /\ Observe(setting.value, currentData)
    /\ UNCHANGED <<currentData, lock, poll>>

-------------------------------------------------------------------------------
(* The handler of a poll.  An SDK only sends an etag that it has been given. *)

Arrive(p) ==
    /\ poll[p] = NewPoll
    /\ \E req \in Request :
        /\ \/ req.ifNoneMatch = NoEtag
           \/ \E q \in Polls : Answered(q) /\ poll[q].etag = req.ifNoneMatch
        /\ poll' = [poll EXCEPT ![p] = [at |-> "waiting", req |-> req]]
    /\ moments' = [moments EXCEPT ![p] = {<<currentEtag, currentData>>}]
    /\ UNCHANGED <<currentData, currentEtag, lock, setting>>

\* Fault: the lock is released before the data is read.
LockAndMatch_Unlocks(p) ==
    /\ poll[p].at = "waiting"
    /\ lock = Free
    /\ IF poll[p].req.ifNoneMatch # NoEtag /\ poll[p].req.ifNoneMatch = currentEtag
       THEN Answer(p, 304, NoEtag, 0)
       ELSE poll' = [poll EXCEPT ![p] = [at |-> "reading", req |-> @.req,
                                         etag |-> currentEtag]]
    /\ UNCHANGED <<currentData, currentEtag, lock, setting, moments>>

\* Fault: no etag matches no etag.
LockAndMatch_NoneMatches(p) ==
    /\ poll[p].at = "waiting"
    /\ lock = Free
    /\ IF poll[p].req.ifNoneMatch = currentEtag
       THEN Answer(p, 304, NoEtag, 0) /\ UNCHANGED lock
       ELSE /\ poll' = [poll EXCEPT ![p] = [at |-> "reading", req |-> @.req,
                                            etag |-> currentEtag]]
            /\ lock' = p
    /\ UNCHANGED <<currentData, currentEtag, setting, moments>>

\* Lock, and answer 304 at once if the client has the current etag.
LockAndMatch(p) ==
    /\ poll[p].at = "waiting"
    /\ lock = Free
    /\ IF poll[p].req.ifNoneMatch # NoEtag /\ poll[p].req.ifNoneMatch = currentEtag
       THEN Answer(p, 304, NoEtag, 0) /\ UNCHANGED lock
       ELSE /\ poll' = [poll EXCEPT ![p] = [at |-> "reading", req |-> @.req,
                                            etag |-> currentEtag]]
            /\ lock' = p
    /\ UNCHANGED <<currentData, currentEtag, setting, moments>>

\* The data is unavailable: a 404, and no Unlock on this path.
ReadUnavailable(p) ==
    /\ poll[p].at = "reading"
    /\ currentData \in Unavailable
    /\ Answer(p, 404, NoEtag, 0)
    /\ UNCHANGED <<currentData, currentEtag, lock, setting, moments>>

\* Fault: an unknown key is answered with the lock held.
ReadData_404KeepsLock(p) ==
    /\ poll[p].at = "reading"
    /\ currentData \notin Unavailable
    /\ IF poll[p].req.key = "unknown"
       THEN Answer(p, 404, NoEtag, 0) /\ UNCHANGED lock
       ELSE Answer(p, 200, poll[p].etag, currentData) /\ lock' = Free
    /\ UNCHANGED <<currentData, currentEtag, setting, moments>>

\* Read the data, release the lock and respond.  The headers, the etag among
\* them, are set before a request that does not accept gzip is refused.
ReadData(p) ==
    /\ poll[p].at = "reading"
    /\ currentData \notin Unavailable
    /\ lock' = Free
    /\ CASE poll[p].req.key = "unknown" -> Answer(p, 404, NoEtag, 0)
         [] poll[p].req.key # "unknown" /\ Gzip /\ ~poll[p].req.gzip ->
                Answer(p, 400, poll[p].etag, 0)
         [] OTHER -> Answer(p, 200, poll[p].etag, currentData)
    /\ UNCHANGED <<currentData, currentEtag, setting, moments>>

-------------------------------------------------------------------------------
PollStep(p) == Arrive(p) \/ LockAndMatch(p) \/ ReadUnavailable(p) \/ ReadData(p)

Next == CallSetData \/ CallSetEtag \/ SetData \/ SetEtag \/ \E p \in Polls : PollStep(p)

Spec == Init /\ [][Next]_vars

\* Go's mutex gives the lock to a goroutine that has waited for it for long:
\* strong fairness for the steps that take it.  The others only need their
\* goroutine to be scheduled.
FairSpec ==
    /\ Spec
    /\ SF_vars(SetData) /\ SF_vars(SetEtag)
    /\ \A p \in Polls : /\ SF_vars(LockAndMatch(p))
                        /\ WF_vars(ReadUnavailable(p)) /\ WF_vars(ReadData(p))

-------------------------------------------------------------------------------
TypeOK ==
    /\ currentData \in 1..MaxVersion
    /\ currentEtag \in EtagOrNone
    /\ lock \in Polls \union {Free}
    /\ \/ setting = NotSetting
       \/ setting \in [call : {"data"}, value : 1..MaxVersion]
       \/ setting \in [call : {"etag"}, value : Etags]
    /\ DOMAIN poll = Polls
    /\ \A p \in Polls :
        \/ poll[p] = NewPoll
        \/ poll[p] \in [at : {"waiting"}, req : Request]
        \/ poll[p] \in [at : {"reading"}, req : Request, etag : EtagOrNone]
        \/ poll[p] \in [at : {"answered"}, req : Request, status : {200, 304, 400, 404},
                        etag : EtagOrNone, data : 0..MaxVersion]
    /\ moments \in [Polls -> SUBSET (EtagOrNone \X (1..MaxVersion))]

\* A poll is answered from one moment between its arrival and its answer: the
\* etag of a 200 belongs to the data it is sent with, and a 304 is sent only
\* if the client's etag was current, whatever the test sets in the meantime.
PollsAreLinearizable ==
    \A p \in Polls : Answered(p) =>
        /\ poll[p].status = 200 => <<poll[p].etag, poll[p].data>> \in moments[p]
        /\ poll[p].status = 304 =>
               \E d \in 1..MaxVersion : <<poll[p].req.ifNoneMatch, d>> \in moments[p]

\* The lock left with a poll of unavailable data.
contractStuck == lock # Free /\ Answered(lock)

contractAnswer ==
    [p \in Polls |-> IF Answered(p)
                     THEN [req |-> poll[p].req, status |-> poll[p].status,
                           etag |-> poll[p].etag, data |-> poll[p].data]
                     ELSE [status |-> 0]]

Contract == INSTANCE PollingContract WITH
    data <- currentData, etag <- currentEtag, answer <- contractAnswer,
    stuck <- contractStuck

\* With its lock the service is an object whose calls take one step each: all
\* polls and setters agree on one order, that of the unlocks, a poll of what is
\* known by its etag is answered with a 304 and any other with the data, and
\* nothing happens any more once the lock has left.
ImplementsContract == Contract!Spec

\* Every poll is answered, unless a poll of unavailable data has left with
\* the lock.
LockLost ==
    /\ lock # Free /\ Answered(lock)
    /\ \E moment \in moments[lock] : moment[2] \in Unavailable
PollsAnswered == \A p \in Polls : poll[p].at = "waiting" ~> Answered(p) \/ LockLost

\* Doc of SDKDataSource.SetInitialData: the data source uses the new data set
\* the next time it receives an SDK connection.
SetDataTakesEffect == setting.call = "data" ~> setting.call # "data"
===============================================================================
