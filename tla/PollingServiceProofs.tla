------------------------- MODULE PollingServiceProofs -------------------------
(***************************************************************************)
(* Proofs about PollingService for any number of polls, any etags and any  *)
(* number of data sets, some of which are unavailable.                     *)
(***************************************************************************)
EXTENDS PollingService, TLAPS

\* The lock belongs to the poll that reads; the etag that it has read is still
\* the current one, because the setters need the lock.
ReaderInv ==
    \A p \in Polls : poll[p].at = "reading" => lock = p /\ poll[p].etag = currentEtag

\* What is current now is among the moments of every poll in progress.
MomentInv ==
    \A p \in Polls : InProgress(p) => <<currentEtag, currentData>> \in moments[p]

\* The inductive invariant behind PollsAreLinearizable.
IInv == TypeOK /\ ReaderInv /\ MomentInv /\ PollsAreLinearizable

-------------------------------------------------------------------------------
\* A setter that has the lock changes the service's state between two polls:
\* nobody reads, and the new state is a moment of every poll that waits.
LEMMA SetterStep ==
    ASSUME IInv, NEW data \in 1..MaxVersion, NEW etag \in EtagOrNone,
           lock = Free, UNCHANGED <<lock, poll>>,
           currentData' = data, currentEtag' = etag, setting' = NotSetting,
           Observe(etag, data)
    PROVE  IInv'
  <1>1. TypeOK'
    <2>1. moments' \in [Polls -> SUBSET (EtagOrNone \X (1..MaxVersion))]
      BY DEF IInv, TypeOK, Observe
    <2> QED
      BY <2>1 DEF IInv, TypeOK
  <1>2. ReaderInv'
    BY ConstantsAssumption DEF IInv, ReaderInv
  <1>3. \A p \in Polls : moments[p] \subseteq moments'[p]
    BY DEF Observe
  <1>4. MomentInv'
    BY DEF IInv, MomentInv, Observe, InProgress
  <1>5. PollsAreLinearizable'
    BY <1>3 DEF IInv, PollsAreLinearizable, Answered
  <1> QED
    BY <1>1, <1>2, <1>4, <1>5 DEF IInv

\* A poll that is answered by the service's present state is answered by one
\* of its moments.
LEMMA AnswerStep ==
    ASSUME IInv, NEW p \in Polls, NEW status \in {200, 304, 400, 404},
           NEW etag \in EtagOrNone, NEW data \in 0..MaxVersion,
           InProgress(p), Answer(p, status, etag, data),
           status = 200 => etag = currentEtag /\ data = currentData,
           status = 304 => poll[p].req.ifNoneMatch = currentEtag,
           UNCHANGED <<currentData, currentEtag, setting, moments>>,
           lock' \in {lock, Free}, lock' # lock => lock = p
    PROVE  IInv'
  <1> DEFINE answer == [at |-> "answered", req |-> poll[p].req, status |-> status,
                        etag |-> etag, data |-> data]
  <1>1. poll' = [poll EXCEPT ![p] = answer]
    BY DEF Answer
  <1>2. answer \in [at : {"answered"}, req : Request, status : {200, 304, 400, 404},
                    etag : EtagOrNone, data : 0..MaxVersion]
    BY DEF IInv, TypeOK, InProgress, NewPoll
  <1>3. \A q \in Polls : poll'[q] = IF q = p THEN answer ELSE poll[q]
    BY <1>1 DEF IInv, TypeOK
  <1>4. TypeOK'
    <2>1. DOMAIN poll' = Polls
      BY <1>1 DEF IInv, TypeOK
    <2> QED
      BY <1>2, <1>3, <2>1 DEF IInv, TypeOK
  <1>5. ReaderInv'
    BY <1>3 DEF IInv, ReaderInv
  <1>6. MomentInv'
    BY <1>3 DEF IInv, MomentInv, InProgress
  <1>7. <<currentEtag, currentData>> \in moments[p] /\ currentData \in 1..MaxVersion
    BY DEF IInv, MomentInv, TypeOK
  <1>8. PollsAreLinearizable'
    <2> SUFFICES ASSUME NEW q \in Polls, Answered(q)'
                 PROVE  /\ poll'[q].status = 200 =>
                               <<poll'[q].etag, poll'[q].data>> \in moments[q]
                        /\ poll'[q].status = 304 =>
                               \E d \in 1..MaxVersion :
                                   <<poll'[q].req.ifNoneMatch, d>> \in moments[q]
      BY DEF PollsAreLinearizable
    <2>1. CASE q = p
      <3>1. /\ poll'[q].status = status /\ poll'[q].etag = etag
            /\ poll'[q].data = data /\ poll'[q].req = poll[p].req
        BY <1>3, <2>1
      <3> QED
        BY <1>7, <2>1, <3>1
    <2>2. CASE q # p
      <3>1. poll'[q] = poll[q] /\ Answered(q)
        BY <1>3, <2>2 DEF Answered
      <3> QED
        BY <3>1 DEF IInv, PollsAreLinearizable
    <2> QED
      BY <2>1, <2>2
  <1> QED
    BY <1>4, <1>5, <1>6, <1>8 DEF IInv

\* Answers stay right as long as they and their moments do not change.
LEMMA AnswersKept ==
    ASSUME PollsAreLinearizable,
           \A q \in Polls : Answered(q)' =>
               Answered(q) /\ poll'[q] = poll[q] /\ moments'[q] = moments[q]
    PROVE  PollsAreLinearizable'
  BY DEF PollsAreLinearizable

LEMMA Inductive ==
    ASSUME IInv, [Next]_vars
    PROVE  IInv'
  <1>1. CASE CallSetData
    <2>1. TypeOK'
      BY <1>1, ConstantsAssumption DEF CallSetData, IInv, TypeOK
    <2> QED
      BY <1>1, <2>1 DEF CallSetData, IInv, ReaderInv, MomentInv, PollsAreLinearizable,
                        InProgress, Answered
  <1>2. CASE CallSetEtag
    <2>1. TypeOK'
      BY <1>2 DEF CallSetEtag, IInv, TypeOK
    <2> QED
      BY <1>2, <2>1 DEF CallSetEtag, IInv, ReaderInv, MomentInv, PollsAreLinearizable,
                        InProgress, Answered
  <1>3. CASE SetData
    <2>1. setting.value \in 1..MaxVersion
      BY <1>3 DEF SetData, IInv, TypeOK, NotSetting
    <2>2. currentEtag \in EtagOrNone
      BY DEF IInv, TypeOK
    <2> QED
      BY <1>3, <2>1, <2>2, SetterStep DEF SetData
  <1>4. CASE SetEtag
    <2>1. setting.value \in EtagOrNone
      BY <1>4 DEF SetEtag, IInv, TypeOK, NotSetting, EtagOrNone
    <2>2. currentData \in 1..MaxVersion
      BY DEF IInv, TypeOK
    <2> QED
      BY <1>4, <2>1, <2>2, SetterStep DEF SetEtag
  <1>5. ASSUME NEW p \in Polls, Arrive(p)
        PROVE  IInv'
    <2>1. PICK req \in Request :
              poll' = [poll EXCEPT ![p] = [at |-> "waiting", req |-> req]]
      BY <1>5 DEF Arrive
    <2>2. \A q \in Polls :
              poll'[q] = IF q = p THEN [at |-> "waiting", req |-> req] ELSE poll[q]
      BY <2>1 DEF IInv, TypeOK
    <2>3. \A q \in Polls :
              moments'[q] = IF q = p THEN {<<currentEtag, currentData>>} ELSE moments[q]
      BY <1>5 DEF Arrive, IInv, TypeOK
    <2>4. TypeOK'
      <3>1. DOMAIN poll' = Polls
        BY <2>1 DEF IInv, TypeOK
      <3>2. moments' \in [Polls -> SUBSET (EtagOrNone \X (1..MaxVersion))]
        BY <1>5 DEF Arrive, IInv, TypeOK
      <3> QED
        BY <1>5, <2>2, <3>1, <3>2 DEF Arrive, IInv, TypeOK
    <2>5. ReaderInv'
      BY <1>5, <2>2 DEF Arrive, IInv, ReaderInv
    <2>6. MomentInv'
      BY <1>5, <2>2, <2>3 DEF Arrive, IInv, MomentInv, InProgress
    <2>7. PollsAreLinearizable'
      <3>1. \A q \in Polls : Answered(q)' =>
                Answered(q) /\ poll'[q] = poll[q] /\ moments'[q] = moments[q]
        BY <2>2, <2>3 DEF Answered
      <3> QED
        BY <3>1, AnswersKept DEF IInv
    <2> QED
      BY <2>4, <2>5, <2>6, <2>7 DEF IInv
  <1>6. ASSUME NEW p \in Polls, LockAndMatch(p)
        PROVE  IInv'
    <2> DEFINE match == /\ poll[p].req.ifNoneMatch # NoEtag
                        /\ poll[p].req.ifNoneMatch = currentEtag
    <2>1. CASE match
      <3>1. NoEtag \in EtagOrNone /\ 0 \in 0..MaxVersion /\ InProgress(p)
        BY <1>6, ConstantsAssumption DEF EtagOrNone, LockAndMatch, InProgress
      <3>2. Answer(p, 304, NoEtag, 0) /\ UNCHANGED lock
        BY <1>6, <2>1 DEF LockAndMatch
      <3> QED
        BY <1>6, <2>1, <3>1, <3>2, AnswerStep DEF LockAndMatch
    <2>2. CASE ~match
      <3> DEFINE reading == [at |-> "reading", req |-> poll[p].req, etag |-> currentEtag]
      <3>1. poll' = [poll EXCEPT ![p] = reading] /\ lock' = p
        BY <1>6, <2>2 DEF LockAndMatch
      <3>2. reading \in [at : {"reading"}, req : Request, etag : EtagOrNone]
        BY <1>6 DEF LockAndMatch, IInv, TypeOK, NewPoll
      <3>3. \A q \in Polls : poll'[q] = IF q = p THEN reading ELSE poll[q]
        BY <3>1 DEF IInv, TypeOK
      <3>4. TypeOK'
        <4>1. DOMAIN poll' = Polls
          BY <3>1 DEF IInv, TypeOK
        <4> QED
          BY <1>6, <3>1, <3>2, <3>3, <4>1 DEF LockAndMatch, IInv, TypeOK
      <3>5. ReaderInv'
        BY <1>6, <3>1, <3>3, ConstantsAssumption DEF LockAndMatch, IInv, ReaderInv
      <3>6. MomentInv'
        BY <1>6, <3>3 DEF LockAndMatch, IInv, MomentInv, InProgress
      <3>7. PollsAreLinearizable'
        <4>1. \A q \in Polls : Answered(q)' =>
                  Answered(q) /\ poll'[q] = poll[q] /\ moments'[q] = moments[q]
          BY <1>6, <3>3 DEF LockAndMatch, Answered
        <4> QED
          BY <4>1, AnswersKept DEF IInv
      <3> QED
        BY <3>4, <3>5, <3>6, <3>7 DEF IInv
    <2> QED
      BY <2>1, <2>2
  <1>7. ASSUME NEW p \in Polls, ReadUnavailable(p)
        PROVE  IInv'
    <2>1. NoEtag \in EtagOrNone /\ 0 \in 0..MaxVersion /\ InProgress(p)
      BY <1>7, ConstantsAssumption DEF EtagOrNone, ReadUnavailable, InProgress
    <2> QED
      BY <1>7, <2>1, AnswerStep DEF ReadUnavailable
  <1>8. ASSUME NEW p \in Polls, ReadData(p)
        PROVE  IInv'
    <2>1. /\ NoEtag \in EtagOrNone /\ currentEtag \in EtagOrNone
          /\ 0 \in 0..MaxVersion /\ currentData \in 0..MaxVersion
      BY ConstantsAssumption DEF EtagOrNone, IInv, TypeOK
    <2>2. InProgress(p) /\ lock = p /\ poll[p].etag = currentEtag
      BY <1>8 DEF ReadData, InProgress, IInv, ReaderInv
    <2>3. \/ Answer(p, 404, NoEtag, 0)
          \/ Answer(p, 400, currentEtag, 0)
          \/ Answer(p, 200, currentEtag, currentData)
      BY <1>8, <2>2 DEF ReadData
    <2>4. lock' = Free /\ UNCHANGED <<currentData, currentEtag, setting, moments>>
      BY <1>8 DEF ReadData
    <2> QED
      BY <2>1, <2>2, <2>3, <2>4, AnswerStep
  <1>9. CASE UNCHANGED vars
    <2>1. TypeOK'
      BY <1>9 DEF vars, IInv, TypeOK
    <2> QED
      BY <1>9, <2>1 DEF vars, IInv, ReaderInv, MomentInv, PollsAreLinearizable,
                        InProgress, Answered
  <1> QED
    BY <1>1, <1>2, <1>3, <1>4, <1>5, <1>6, <1>7, <1>8, <1>9 DEF Next, PollStep

LEMMA Initial == Init => IInv
  <1> SUFFICES ASSUME Init PROVE IInv
    OBVIOUS
  <1>1. TypeOK
    BY ConstantsAssumption DEF Init, TypeOK, EtagOrNone, NewPoll
  <1> QED
    BY <1>1 DEF Init, IInv, ReaderInv, MomentInv, PollsAreLinearizable, InProgress,
                Answered, NewPoll

-------------------------------------------------------------------------------
\* Every variable of the polling service keeps to its domain
\* (mockld/polling_service.go:42-50).
THEOREM TypeCorrect == Spec => []TypeOK
  <1>1. IInv => TypeOK
    BY DEF IInv
  <1> QED
    BY <1>1, Initial, Inductive, PTL DEF Spec

\* Every poll is answered from one moment between its arrival and its answer
\* (pollingHandler, mockld/polling_service.go:100-150), for any number of
\* polls that race with the setters.
THEOREM Linearizable == Spec => []PollsAreLinearizable
  <1>1. IInv => PollsAreLinearizable
    BY DEF IInv
  <1> QED
    BY <1>1, Initial, Inductive, PTL DEF Spec

-------------------------------------------------------------------------------
(* The refinement. *)

\* A call of SetData has the next version.
SettingInv ==
    setting.call = "data" => currentData < MaxVersion /\ setting.value = currentData + 1

\* A request in progress has no etag but one that was given.
KnownInv ==
    \A p \in Polls : InProgress(p) =>
        \/ poll[p].req.ifNoneMatch = NoEtag
        \/ \E q \in Polls : Answered(q) /\ poll[q].etag = poll[p].req.ifNoneMatch

\* The SDK whose poll reads the data does not have it yet.
MissInv ==
    \A p \in Polls : poll[p].at = "reading" => ~Contract!UpToDate(poll[p].req)

RInv == IInv /\ SettingInv /\ KnownInv /\ MissInv

LEMMA Domains ==
    ASSUME IInv
    PROVE  /\ DOMAIN poll = Polls
           /\ \A p \in Polls : InProgress(p) => ~Answered(p) /\ poll[p].req \in Request
           /\ \A p \in Polls : Answered(p) => poll[p].status \in {200, 304, 400, 404}
           /\ \A p \in Polls : poll[p] = NewPoll => ~InProgress(p) /\ ~Answered(p)
  BY DEF IInv, TypeOK, InProgress, Answered, NewPoll

\* A step that answers no poll changes no answer.
LEMMA SameAnswers ==
    ASSUME \A q \in Polls : Answered(q)' <=> Answered(q),
           \A q \in Polls : Answered(q) => poll'[q] = poll[q]
    PROVE  contractAnswer' = contractAnswer
  BY Zenon DEF contractAnswer

LEMMA NewAnswer ==
    ASSUME IInv, NEW p \in Polls, NEW status, NEW etag, NEW data,
           InProgress(p), Answer(p, status, etag, data)
    PROVE  /\ contractAnswer' = [contractAnswer EXCEPT ![p] = [req |-> poll[p].req, status |-> status,
                                               etag |-> etag, data |-> data]]
           /\ Answered(p)' /\ ~InProgress(p)'
           /\ \A q \in Polls \ {p} : poll'[q] = poll[q]
  <1> DEFINE new == [at |-> "answered", req |-> poll[p].req, status |-> status,
                     etag |-> etag, data |-> data]
             given == [req |-> poll[p].req, status |-> status, etag |-> etag, data |-> data]
  <1>1. poll' = [poll EXCEPT ![p] = new] /\ DOMAIN poll = Polls
    BY Domains DEF Answer
  <1>2. /\ new.at = "answered"
        /\ given = [req |-> new.req, status |-> new.status, etag |-> new.etag, data |-> new.data]
    OBVIOUS
  <1> HIDE DEF new, given
  <1>3. poll'[p] = new /\ \A q \in Polls \ {p} : poll'[q] = poll[q]
    BY <1>1
  <1>4. Answered(p)' /\ ~InProgress(p)'
    BY <1>2, <1>3 DEF Answered, InProgress
  <1>5. contractAnswer'[p] = given
    BY <1>2, <1>3, <1>4 DEF contractAnswer
  <1>6. \A q \in Polls \ {p} : contractAnswer'[q] = contractAnswer[q]
    BY <1>3 DEF contractAnswer, Answered
  <1>7. contractAnswer' = [contractAnswer EXCEPT ![p] = given]
    BY <1>5, <1>6 DEF contractAnswer
  <1> QED
    BY <1>3, <1>4, <1>7 DEF given

\* Requests in progress stay known as long as answers stay.
LEMMA KnownStep ==
    ASSUME KnownInv,
           \A q \in Polls : Answered(q) => Answered(q)' /\ poll'[q] = poll[q],
           \A q \in Polls : InProgress(q)' => InProgress(q) /\ poll'[q].req = poll[q].req
    PROVE  KnownInv'
  BY DEF KnownInv

\* A poll is answered when it has the lock, or finds it free.
LEMMA AnswerRefines ==
    ASSUME RInv, NEW p \in Polls, NEW status, NEW etag, NEW data,
           InProgress(p), lock \in {Free, p}, Answer(p, status, etag, data),
           Contract!Response(poll[p].req) = [req |-> poll[p].req, status |-> status,
                                             etag |-> etag, data |-> data],
           UNCHANGED <<currentData, currentEtag, setting, moments>>,
           contractStuck' = (~Contract!UpToDate(poll[p].req) /\ currentData \in Unavailable)
    PROVE  /\ Contract!Poll(p, poll[p].req) /\ poll[p].req \in Contract!Request
           /\ SettingInv' /\ KnownInv' /\ MissInv'
  <1>1. ~Answered(p) /\ poll[p].req \in Request /\ Free \notin Polls
    BY Domains, ConstantsAssumption DEF RInv
  <1>2. ~contractStuck
    BY <1>1 DEF contractStuck
  <1>3. contractAnswer[p] = Contract!NoAnswer
    BY <1>1 DEF contractAnswer, Contract!NoAnswer
  <1>4. ASSUME NEW q \in Polls, Answered(q)
        PROVE  contractAnswer[q] # Contract!NoAnswer /\ contractAnswer[q].etag = poll[q].etag
    <2>1. contractAnswer[q] = [req |-> poll[q].req, status |-> poll[q].status,
                       etag |-> poll[q].etag, data |-> poll[q].data]
      BY <1>4 DEF contractAnswer
    <2>2. contractAnswer[q].status # 0
      BY <1>4, <2>1, Domains DEF RInv
    <2>3. Contract!NoAnswer.status = 0
      BY DEF Contract!NoAnswer
    <2> QED
      BY <2>1, <2>2, <2>3
  <1>5. \/ poll[p].req.ifNoneMatch = Contract!NoEtag
        \/ \E q \in Polls : /\ contractAnswer[q] # Contract!NoAnswer
                            /\ contractAnswer[q].etag = poll[p].req.ifNoneMatch
    BY <1>4 DEF RInv, KnownInv, NoEtag, Contract!NoEtag
  <1>6. /\ contractAnswer' = [contractAnswer EXCEPT ![p] = Contract!Response(poll[p].req)]
        /\ Answered(p)' /\ ~InProgress(p)'
        /\ \A q \in Polls \ {p} : poll'[q] = poll[q]
    BY NewAnswer DEF RInv
  <1>7. Contract!Poll(p, poll[p].req)
    BY <1>2, <1>3, <1>5, <1>6 DEF Contract!Poll
  <1>8. poll[p].req \in Contract!Request
    BY <1>1 DEF Request, EtagOrNone, NoEtag, Contract!Request, Contract!NoEtag
  <1>9. SettingInv'
    BY DEF RInv, SettingInv
  <1>10. KnownInv'
    BY <1>1, <1>6, KnownStep DEF RInv, Answered, InProgress
  <1>11. MissInv'
    BY <1>6 DEF RInv, MissInv, Contract!UpToDate, InProgress
  <1> QED
    BY <1>7, <1>8, <1>9, <1>10, <1>11

\* A setter: nobody reads while it has the lock.
LEMMA SetterRefines ==
    ASSUME RInv, SetData \/ SetEtag
    PROVE  /\ Contract!SetData \/ Contract!SetEtag
           /\ SettingInv' /\ KnownInv' /\ MissInv'
  <1>1. lock = Free /\ lock' = lock /\ poll' = poll /\ setting' = NotSetting
    BY DEF SetData, SetEtag
  <1>2. \A p \in Polls : poll[p].at # "reading"
    BY <1>1, ConstantsAssumption DEF RInv, IInv, ReaderInv
  <1>3. ~contractStuck /\ contractStuck' = contractStuck /\ contractAnswer' = contractAnswer
    BY <1>1 DEF contractStuck, contractAnswer, Answered
  <1>4. SettingInv' /\ KnownInv' /\ MissInv'
    BY <1>1, <1>2 DEF RInv, SettingInv, NotSetting, KnownInv, MissInv, InProgress, Answered
  <1>5. CASE SetData
    <2>1. /\ currentData < MaxVersion /\ currentData' = currentData + 1
          /\ currentEtag' = currentEtag
      BY <1>5 DEF SetData, RInv, SettingInv
    <2> QED
      BY <1>3, <1>4, <2>1 DEF Contract!SetData
  <1>6. CASE SetEtag
    <2>1. currentEtag' \in Etags /\ currentData' = currentData
      BY <1>6 DEF SetEtag, RInv, IInv, TypeOK, NotSetting
    <2> QED
      BY <1>3, <1>4, <2>1 DEF Contract!SetEtag
  <1> QED
    BY <1>5, <1>6

LEMMA CallRefines ==
    ASSUME RInv, CallSetData \/ CallSetEtag \/ UNCHANGED vars
    PROVE  /\ UNCHANGED Contract!contractVars
           /\ SettingInv' /\ KnownInv' /\ MissInv'
  <1>1. UNCHANGED <<currentData, currentEtag, lock, poll>>
    BY DEF CallSetData, CallSetEtag, vars
  <1>2. contractStuck' = contractStuck /\ contractAnswer' = contractAnswer
    BY <1>1 DEF contractStuck, contractAnswer, Answered
  <1>3. KnownInv' /\ MissInv'
    BY <1>1 DEF RInv, KnownInv, MissInv, InProgress, Answered, Contract!UpToDate
  <1>4. SettingInv'
    <2>1. CASE CallSetData
      BY <2>1 DEF CallSetData, SettingInv
    <2>2. CASE CallSetEtag
      BY <2>2 DEF CallSetEtag, SettingInv
    <2>3. CASE UNCHANGED vars
      BY <2>3 DEF vars, RInv, SettingInv
    <2> QED
      BY <2>1, <2>2, <2>3
  <1> QED
    BY <1>1, <1>2, <1>3, <1>4 DEF Contract!contractVars

LEMMA ArriveRefines ==
    ASSUME RInv, NEW p \in Polls, Arrive(p)
    PROVE  /\ UNCHANGED Contract!contractVars
           /\ SettingInv' /\ KnownInv' /\ MissInv'
  <1>1. PICK req \in Request :
            /\ \/ req.ifNoneMatch = NoEtag
               \/ \E q \in Polls : Answered(q) /\ poll[q].etag = req.ifNoneMatch
            /\ poll' = [poll EXCEPT ![p] = [at |-> "waiting", req |-> req]]
    BY DEF Arrive
  <1>2. /\ poll[p] = NewPoll
        /\ UNCHANGED <<currentData, currentEtag, lock, setting>>
    BY DEF Arrive
  <1>3. /\ ~Answered(p) /\ ~InProgress(p)
        /\ poll'[p] = [at |-> "waiting", req |-> req]
        /\ \A q \in Polls \ {p} : poll'[q] = poll[q]
    BY <1>1, <1>2, Domains DEF RInv
  <1>4. /\ \A q \in Polls : Answered(q)' <=> Answered(q)
        /\ \A q \in Polls : Answered(q) => poll'[q] = poll[q]
    BY <1>3 DEF Answered
  <1>5. contractAnswer' = contractAnswer
    BY <1>4, SameAnswers
  <1>6. contractStuck' <=> contractStuck
    <2>1. lock \in Polls \union {Free}
      BY DEF RInv, IInv, TypeOK
    <2> QED
      BY <1>2, <1>4, <2>1 DEF contractStuck, Answered
  <1>7. contractStuck' = contractStuck
    BY <1>6 DEF contractStuck
  <1>8. SettingInv'
    BY <1>2 DEF RInv, SettingInv
  <1>9. KnownInv'
    <2> SUFFICES ASSUME NEW q \in Polls, InProgress(q)'
                 PROVE  \/ poll'[q].req.ifNoneMatch = NoEtag
                        \/ \E r \in Polls : Answered(r)' /\ poll'[r].etag = poll'[q].req.ifNoneMatch
      BY DEF KnownInv
    <2>1. \/ poll'[q].req.ifNoneMatch = NoEtag
          \/ \E r \in Polls : Answered(r) /\ poll[r].etag = poll'[q].req.ifNoneMatch
      <3>1. CASE q = p
        BY <1>1, <1>3, <3>1
      <3>2. CASE q # p
        BY <1>3, <3>2 DEF RInv, KnownInv, InProgress
      <3> QED
        BY <3>1, <3>2
    <2> QED
      BY <1>4, <2>1
  <1>10. MissInv'
    BY <1>2, <1>3 DEF RInv, MissInv, Contract!UpToDate
  <1> QED
    BY <1>2, <1>5, <1>7, <1>8, <1>9, <1>10 DEF Contract!contractVars

LEMMA LockAndMatchRefines ==
    ASSUME RInv, NEW p \in Polls, LockAndMatch(p)
    PROVE  /\ \/ UNCHANGED Contract!contractVars
              \/ Contract!Poll(p, poll[p].req) /\ poll[p].req \in Contract!Request
           /\ SettingInv' /\ KnownInv' /\ MissInv'
  <1> DEFINE req == poll[p].req
             match == req.ifNoneMatch # NoEtag /\ req.ifNoneMatch = currentEtag
  <1>1. /\ InProgress(p) /\ ~Answered(p) /\ lock = Free /\ Free \notin Polls
        /\ UNCHANGED <<currentData, currentEtag, setting, moments>>
    BY ConstantsAssumption DEF LockAndMatch, InProgress, Answered
  <1>2. match <=> Contract!UpToDate(req)
    BY DEF Contract!UpToDate, NoEtag, Contract!NoEtag
  <1>3. CASE match
    <2>1. Answer(p, 304, NoEtag, 0) /\ lock' = lock
      BY <1>3 DEF LockAndMatch
    <2>2. Contract!Response(req) = [req |-> req, status |-> 304, etag |-> NoEtag, data |-> 0]
      <3>1. Contract!Status(req) = 304
        BY <1>2, <1>3 DEF Contract!Status
      <3> QED
        BY <3>1 DEF Contract!Response, NoEtag, Contract!NoEtag
    <2>3. contractStuck' = FALSE
      BY <1>1, <2>1 DEF contractStuck
    <2>4. contractStuck' = (~Contract!UpToDate(req) /\ currentData \in Unavailable)
      BY <1>2, <1>3, <2>3
    <2> QED
      BY <1>1, <2>1, <2>2, <2>4, AnswerRefines
  <1>4. CASE ~match
    <2> DEFINE reading == [at |-> "reading", req |-> req, etag |-> currentEtag]
    <2>1. poll' = [poll EXCEPT ![p] = reading] /\ lock' = p
      BY <1>4 DEF LockAndMatch
    <2>2. reading.at = "reading" /\ reading.req = req
      OBVIOUS
    <2> HIDE DEF reading
    <2>3. poll'[p] = reading /\ \A q \in Polls \ {p} : poll'[q] = poll[q]
      BY <2>1, Domains DEF RInv
    <2>4. /\ \A q \in Polls : Answered(q)' <=> Answered(q)
          /\ \A q \in Polls : Answered(q) => poll'[q] = poll[q]
          /\ \A q \in Polls : InProgress(q)' => InProgress(q) /\ poll'[q].req = poll[q].req
      BY <1>1, <2>2, <2>3 DEF Answered, InProgress
    <2>5. contractAnswer' = contractAnswer
      BY <2>4, SameAnswers
    <2>6. contractStuck' = FALSE /\ contractStuck = FALSE
      BY <1>1, <2>1, <2>4 DEF contractStuck, Answered
    <2>7. SettingInv'
      BY <1>1 DEF RInv, SettingInv
    <2>8. KnownInv'
      BY <2>4, KnownStep DEF RInv
    <2>9. MissInv'
      <3>1. ~Contract!UpToDate(req)'
        BY <1>1, <1>2, <1>4, <2>2, <2>3 DEF Contract!UpToDate
      <3>2. \A q \in Polls \ {p} : poll'[q].at = "reading" => ~Contract!UpToDate(poll'[q].req)
        BY <2>3 DEF RInv, MissInv
      <3> QED
        BY <1>1, <3>1, <3>2 DEF MissInv, Contract!UpToDate
    <2> QED
      BY <1>1, <2>5, <2>6, <2>7, <2>8, <2>9 DEF Contract!contractVars
  <1> QED
    BY <1>3, <1>4

LEMMA ReadRefines ==
    ASSUME RInv, NEW p \in Polls, ReadUnavailable(p) \/ ReadData(p)
    PROVE  /\ Contract!Poll(p, poll[p].req) /\ poll[p].req \in Contract!Request
           /\ SettingInv' /\ KnownInv' /\ MissInv'
  <1> DEFINE req == poll[p].req
  <1>1. /\ InProgress(p) /\ lock = p /\ p # Free /\ poll[p].etag = currentEtag
        /\ UNCHANGED <<currentData, currentEtag, setting, moments>>
    BY ConstantsAssumption
       DEF ReadUnavailable, ReadData, InProgress, RInv, IInv, ReaderInv
  <1>2. ~Contract!UpToDate(req)
    BY DEF ReadUnavailable, ReadData, RInv, MissInv
  <1>3. NoEtag = Contract!NoEtag
    BY DEF NoEtag, Contract!NoEtag
  <1>4. CASE ReadUnavailable(p)
    <2>1. Answer(p, 404, NoEtag, 0) /\ lock' = lock /\ currentData \in Unavailable
      BY <1>4 DEF ReadUnavailable
    <2>2. Contract!Status(req) = 404
      BY <1>2, <2>1 DEF Contract!Status
    <2>3. Contract!Response(req) = [req |-> req, status |-> 404, etag |-> NoEtag, data |-> 0]
      BY <1>3, <2>2 DEF Contract!Response
    <2>4. Answered(p)'
      BY <1>1, <2>1, NewAnswer DEF RInv
    <2>5. contractStuck' = TRUE
      BY <1>1, <2>1, <2>4 DEF contractStuck, Answered
    <2>6. contractStuck' = (~Contract!UpToDate(req) /\ currentData \in Unavailable)
      BY <1>2, <2>1, <2>5
    <2> QED
      BY <1>1, <2>1, <2>3, <2>6, AnswerRefines
  <1>5. CASE ReadData(p)
    <2>1. lock' = Free /\ currentData \notin Unavailable
      BY <1>5 DEF ReadData
    <2>2. contractStuck' = FALSE
      BY <2>1 DEF contractStuck
    <2>3. contractStuck' = (~Contract!UpToDate(req) /\ currentData \in Unavailable)
      BY <2>1, <2>2
    <2>4. CASE req.key = "unknown"
      <3>1. Answer(p, 404, NoEtag, 0)
        BY <1>5, <2>4 DEF ReadData
      <3>2. Contract!Status(req) = 404
        BY <1>2, <2>4 DEF Contract!Status
      <3>3. Contract!Response(req) = [req |-> req, status |-> 404, etag |-> NoEtag, data |-> 0]
        BY <1>3, <3>2 DEF Contract!Response
      <3> QED
        BY <1>1, <2>3, <3>1, <3>3, AnswerRefines
    <2>5. CASE req.key # "unknown" /\ Gzip /\ ~req.gzip
      <3>1. Answer(p, 400, currentEtag, 0)
        BY <1>1, <1>5, <2>5 DEF ReadData
      <3>2. Contract!Status(req) = 400
        BY <1>2, <2>1, <2>5 DEF Contract!Status
      <3>3. Contract!Response(req) = [req |-> req, status |-> 400, etag |-> currentEtag,
                                      data |-> 0]
        BY <3>2 DEF Contract!Response
      <3> QED
        BY <1>1, <2>3, <3>1, <3>3, AnswerRefines
    <2>6. CASE req.key # "unknown" /\ ~(Gzip /\ ~req.gzip)
      <3>1. Answer(p, 200, currentEtag, currentData)
        BY <1>1, <1>5, <2>6 DEF ReadData
      <3>2. Contract!Status(req) = 200
        BY <1>2, <2>1, <2>6 DEF Contract!Status
      <3>3. Contract!Response(req) = [req |-> req, status |-> 200, etag |-> currentEtag,
                                      data |-> currentData]
        BY <3>2 DEF Contract!Response
      <3> QED
        BY <1>1, <2>3, <3>1, <3>3, AnswerRefines
    <2> QED
      BY <2>4, <2>5, <2>6
  <1> QED
    BY <1>4, <1>5

LEMMA RefinementStep ==
    ASSUME RInv, [Next]_vars
    PROVE  RInv' /\ [Contract!Next]_(Contract!contractVars)
  <1>1. IInv'
    BY Inductive DEF RInv
  <1>2. CASE SetData \/ SetEtag
    BY <1>1, <1>2, SetterRefines DEF RInv, Contract!Next
  <1>3. CASE CallSetData \/ CallSetEtag \/ UNCHANGED vars
    BY <1>1, <1>3, CallRefines DEF RInv
  <1>4. ASSUME NEW p \in Polls, PollStep(p)
        PROVE  RInv' /\ [Contract!Next]_(Contract!contractVars)
    <2>1. CASE Arrive(p)
      BY <1>1, <2>1, ArriveRefines DEF RInv
    <2>2. CASE LockAndMatch(p)
      BY <1>1, <2>2, LockAndMatchRefines DEF RInv, Contract!Next
    <2>3. CASE ReadUnavailable(p) \/ ReadData(p)
      BY <1>1, <2>3, ReadRefines DEF RInv, Contract!Next
    <2> QED
      BY <1>4, <2>1, <2>2, <2>3 DEF PollStep
  <1> QED
    BY <1>2, <1>3, <1>4 DEF Next

LEMMA RefinementInit == Init => RInv /\ Contract!Init
  <1> SUFFICES ASSUME Init
               PROVE  RInv /\ Contract!Init
    OBVIOUS
  <1>1. \A p \in Polls : poll[p] = NewPoll /\ ~Answered(p) /\ ~InProgress(p)
    BY DEF Init, NewPoll, Answered, InProgress
  <1>2. SettingInv /\ KnownInv /\ MissInv
    BY <1>1 DEF Init, SettingInv, NotSetting, KnownInv, MissInv, NewPoll
  <1>3. contractAnswer = [p \in Polls |-> Contract!NoAnswer] /\ contractStuck = FALSE
    BY <1>1 DEF Init, contractAnswer, contractStuck, Contract!NoAnswer
  <1>4. Contract!Init
    BY <1>3 DEF Init, NoEtag, Contract!Init, Contract!NoEtag
  <1> QED
    BY <1>2, <1>4, Initial DEF RInv

\* The lock of PollingService makes it an object whose polls and setters take one
\* step each, down to the path that keeps the lock (mockld/polling_service.go:100-191).
THEOREM Refinement == Spec => ImplementsContract
  <1>1. Spec => ImplementsContract
    BY RefinementInit, RefinementStep, PTL DEF Spec, ImplementsContract, Contract!Spec
  <1> QED
    BY <1>1

-------------------------------------------------------------------------------
(* The lock that is lost. *)

\* A poll that is answered and still has the lock found the data unavailable.
LossInv == contractStuck => currentData \in Unavailable /\ poll[lock].status = 404

\* From then on no call of a setter returns, no poll is answered, and what the service
\* would serve stays as it is.
NothingAfterLoss ==
    contractStuck =>
        /\ contractStuck'
        /\ UNCHANGED <<currentData, currentEtag, lock>>
        /\ setting # NotSetting => setting' = setting
        /\ \A p \in Polls : Answered(p)' => Answered(p)

LEMMA LossStep ==
    ASSUME IInv, LossInv, [Next]_vars
    PROVE  LossInv' /\ [NothingAfterLoss]_vars
  <1>1. /\ Free \notin Polls /\ lock \in Polls \union {Free} /\ DOMAIN poll = Polls
        /\ contractStuck <=> lock # Free /\ poll[lock].at = "answered"
        /\ contractStuck' <=> lock' # Free /\ poll'[lock'].at = "answered"
    BY ConstantsAssumption DEF IInv, TypeOK, contractStuck, Answered
  <1>2. CASE CallSetData \/ CallSetEtag
    <2>1. setting = NotSetting /\ UNCHANGED <<currentData, currentEtag, lock, poll>>
      BY <1>2 DEF CallSetData, CallSetEtag
    <2> QED
      BY <1>1, <2>1 DEF LossInv, NothingAfterLoss, Answered
  <1>3. CASE SetData \/ SetEtag
    <2>1. lock = Free /\ lock' = Free
      BY <1>3 DEF SetData, SetEtag
    <2> QED
      BY <1>1, <2>1 DEF LossInv, NothingAfterLoss
  <1>4. ASSUME NEW p \in Polls, Arrive(p)
        PROVE  LossInv' /\ NothingAfterLoss
    <2>1. PICK req \in Request : poll' = [poll EXCEPT ![p] = [at |-> "waiting", req |-> req]]
      BY <1>4 DEF Arrive
    <2>2. poll[p].at = "new" /\ UNCHANGED <<currentData, currentEtag, lock, setting>>
      BY <1>4 DEF Arrive, NewPoll
    <2>3. \A q \in Polls : (poll'[q].at = "answered" => poll'[q] = poll[q])
      BY <1>1, <2>1
    <2>4. lock # p => poll'[lock] = poll[lock] \/ lock = Free
      BY <1>1, <2>1
    <2>5. contractStuck => lock # p
      BY <1>1, <2>2
    <2> QED
      BY <1>1, <2>2, <2>3, <2>4, <2>5 DEF LossInv, NothingAfterLoss, Answered
  <1>5. ASSUME NEW p \in Polls, LockAndMatch(p)
        PROVE  LossInv' /\ NothingAfterLoss
    <2>1. lock = Free /\ (lock' = Free \/ (lock' = p /\ poll'[p].at = "reading"))
      BY <1>1, <1>5 DEF LockAndMatch
    <2> QED
      BY <1>1, <2>1 DEF LossInv, NothingAfterLoss
  <1>6. ASSUME NEW p \in Polls, ReadUnavailable(p)
        PROVE  LossInv' /\ NothingAfterLoss
    <2>1. lock = p /\ poll[p].at = "reading" /\ ~contractStuck
      BY <1>1, <1>6 DEF ReadUnavailable, IInv, ReaderInv
    <2>2. lock' = p /\ poll'[p].status = 404 /\ currentData' \in Unavailable
      BY <1>1, <1>6, <2>1 DEF ReadUnavailable, Answer
    <2> QED
      BY <2>1, <2>2 DEF LossInv, NothingAfterLoss
  <1>7. ASSUME NEW p \in Polls, ReadData(p)
        PROVE  LossInv' /\ NothingAfterLoss
    <2>1. lock = p /\ poll[p].at = "reading" /\ lock' = Free
      BY <1>7 DEF ReadData, IInv, ReaderInv
    <2> QED
      BY <1>1, <2>1 DEF LossInv, NothingAfterLoss
  <1>8. CASE UNCHANGED vars
    BY <1>1, <1>8 DEF vars, LossInv
  <1> QED
    BY <1>2, <1>3, <1>4, <1>5, <1>6, <1>7, <1>8 DEF Next, PollStep

LEMMA InitialLoss == Init => LossInv
  BY DEF Init, LossInv, contractStuck

\* Of the paths of pollingHandler only the one that finds the data unavailable leaves
\* with the lock (mockld/polling_service.go:110-114): an unknown key, a request without
\* gzip or a current etag never does.
THEOREM LockLostToUnavailable == Spec => []LossInv
  <1>1. IInv /\ LossInv /\ [Next]_vars => LossInv'
    BY LossStep
  <1> QED
    BY <1>1, InitialLoss, Initial, Inductive, PTL DEF Spec

\* And that one poll ends the service: SetData and SetEtag block for good, and every
\* later poll stays without an answer.
THEOREM LockLossIsFinal == Spec => [][NothingAfterLoss]_vars
  <1>1. IInv /\ LossInv /\ [Next]_vars => LossInv' /\ [NothingAfterLoss]_vars
    BY LossStep
  <1> QED
    BY <1>1, InitialLoss, Initial, Inductive, PTL DEF Spec
===============================================================================
