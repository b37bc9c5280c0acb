------------------------ MODULE BotDeliveryProofs ------------------------
(***************************************************************************)
(* Every delivery's audio is in the chat once, and once more at most for   *)
(* each call that was lost, refused or failed; its attempts run out; and a *)
(* work file nobody will delete was left by a failed preparation or a      *)
(* kill.  All for any number of deliveries, qualities, attempts and        *)
(* troubles.                                                               *)
(***************************************************************************)
EXTENDS BotDelivery, TLAPS

\* Until the upload is answered only lost answers have put audio in the chat.
Before(d) ==
    /\ ~uploaded[d]
    /\ loose[d] <= trouble[d]
    /\ card[d] = IF step[d] = "idle" THEN "none" ELSE "loading"

\* How many copies there can be at each step: one for the upload, one for the
\* card, and one for each call that was lost or refused.
Tally(d) ==
    /\ step[d] \in {"idle", "upload"} \cup Preparing => Before(d)
    /\ step[d] \in {"edit", "unload"} =>
         /\ uploaded[d] => loose[d] >= 1
         /\ Copies(d) <= trouble[d] + (IF uploaded[d] THEN 1 ELSE 0)
    /\ step[d] = "send" => Copies(d) <= trouble[d]
    /\ step[d] = "tidy" =>
         loose[d] >= 1 /\ card[d] = "audio" /\ Copies(d) <= 2 + trouble[d]
    /\ step[d] \in {"finish", "done"} => Copies(d) \in 1 .. 1 + trouble[d]
    /\ step[d] \in {"excuse", "failed"} =>
         /\ Copies(d) <= 1 + trouble[d]
         /\ trouble[d] = 0 =>
              /\ loose[d] = 0
              /\ card[d] = IF step[d] = "excuse" THEN "loading" ELSE "note"

\* How much trouble a delivery can have had at each step: a call that is
\* answered had a trouble less than it has attempts.
Spent(d) ==
    LET Earlier == IF uploaded[d] THEN Attempts - 1 ELSE 0
    IN /\ tries[d] <= Attempts - 1
       /\ step[d] \in {"idle"} \cup Preparing => trouble[d] = 0 /\ tries[d] = 0 /\ ~uploaded[d]
       /\ step[d] = "upload" => trouble[d] <= tries[d] /\ ~uploaded[d]
       /\ step[d] = "edit" => trouble[d] <= Earlier + tries[d]
       /\ step[d] = "unload" => trouble[d] <= Earlier + Attempts /\ tries[d] = 0
       /\ step[d] = "send" => trouble[d] <= Attempts + 1 + tries[d]
       /\ step[d] = "tidy" => trouble[d] <= 2 * Attempts - 2
       /\ step[d] \in {"finish", "done"} => trouble[d] <= 2 * Attempts
       /\ step[d] = "excuse" => trouble[d] <= 2 * Attempts + 1
       /\ trouble[d] <= 2 * Attempts + 2

\* Which files a delivery has to delete at each step.
Responsible(d) ==
    /\ step[d] \in {"idle", "song"} => mine[d] = {}
    /\ step[d] \in {"downloading", "encode", "encoding"} => profile[d].out \in mine[d]

ProfilesTyped == Cover \in Paths /\ \A p \in Profiles : p.source \in Paths /\ p.out \in Paths /\ p.key \in Keys

IInv ==
    /\ TypeOK
    /\ \A d \in Deliveries : Tally(d) /\ Spent(d) /\ Responsible(d)
    /\ LeftoversAreOfFailures

-----------------------------------------------------------------------------
LEMMA NamesAreNames == ProfilesTyped
BY DEF ProfilesTyped, Paths, Keys

LEMMA InitInv == Init => IInv
BY ProfilesAssumption, BoundsAssumption DEF Init, IInv, TypeOK, Tally, Spent, Before, Copies, Responsible,
     LeftoversAreOfFailures, Steps, Preparing, Calling, Ended

\* Only d moves.
Frame(d) == \A e \in Deliveries \ {d} :
    /\ step'[e] = step[e] /\ profile'[e] = profile[e] /\ mine'[e] = mine[e]
    /\ uploaded'[e] = uploaded[e] /\ card'[e] = card[e] /\ loose'[e] = loose[e]
    /\ trouble'[e] = trouble[e] /\ tries'[e] = tries[e]

\* What a step of d must show, the leftovers apart.
Kept(d) == TypeOK' /\ Tally(d)' /\ Spent(d)' /\ Responsible(d)' /\ Frame(d)

\* Preparing puts nothing in the chat: only types and the files are at stake.
LEMMA PrepareKeeps ==
    ASSUME NEW d \in Deliveries, IInv, Begin(d) \/ Prepare(d)
    PROVE  Kept(d)
<1> USE NamesAreNames, BoundsAssumption DEF Kept, Frame, IInv, Spent, ProfilesTyped, TypeOK, Tally, Before,
        Copies, Responsible, Steps, Preparing, Calling, Ended, Goto, chat
<1>1. CASE Begin(d)
  BY <1>1 DEF Begin
<1>2. CASE LoadCover(d)
  BY <1>2 DEF LoadCover
<1>3. CASE LookUp(d)
  BY <1>3 DEF LookUp
<1>4. CASE StartDownload(d)
  BY <1>4 DEF StartDownload
<1>5. CASE EndDownload(d)
  BY <1>5 DEF EndDownload
<1>6. CASE StartEncoding(d)
  BY <1>6 DEF StartEncoding
<1>7. CASE EndEncoding(d)
  BY <1>7 DEF EndEncoding
<1>8. CASE CheckSize(d)
  BY <1>8 DEF CheckSize
<1>9. CASE step[d] \in Preparing /\ FailPreparing(d)
  BY <1>9 DEF FailPreparing
<1> QED BY <1>1, <1>2, <1>3, <1>4, <1>5, <1>6, <1>7, <1>8, <1>9 DEF Prepare

LEMMA UploadKeeps ==
    ASSUME NEW d \in Deliveries, IInv, Upload(d)
    PROVE  Kept(d)
<1> USE DEF IInv, TypeOK, Upload, Goto, KeepFiles, CleanUp, Abort, Proceed, Count,
        Again, NoMore, Save, PutAudio
<1>1. TypeOK'
  <2>1. cached' \subseteq Keys /\ files' \subseteq Paths /\ left' \subseteq Paths
    BY NamesAreNames DEF ProfilesTyped
  <2>2. step' \in [Deliveries -> Steps]
    BY DEF Steps, Preparing, Calling, Ended
  <2>3. /\ tries' \in [Deliveries -> Nat] /\ loose' \in [Deliveries -> Nat]
        /\ trouble' \in [Deliveries -> Nat]
    OBVIOUS
  <2>4. /\ mine' \in [Deliveries -> SUBSET Paths]
        /\ uploaded' \in [Deliveries -> BOOLEAN]
    OBVIOUS
  <2> QED BY <2>1, <2>2, <2>3, <2>4
<1>2. Frame(d)
  BY DEF Frame
<1>3. Tally(d)'
  BY DEF Tally, Before, Copies, Preparing, Calling, Ended, Steps
<1>4. Responsible(d)'
  BY DEF Responsible, Preparing
<1>5. Spent(d)'
  BY BoundsAssumption DEF Spent, Preparing, Calling, Ended, Steps
<1> QED BY <1>1, <1>2, <1>3, <1>4, <1>5 DEF Kept

LEMMA EditKeeps ==
    ASSUME NEW d \in Deliveries, IInv, Edit(d)
    PROVE  Kept(d)
<1> USE DEF IInv, TypeOK, Edit, Goto, KeepFiles, CleanUp, Abort, Proceed, Count,
        Again, NoMore, Save, SetCard, AfterEdit
<1>1. TypeOK'
  BY NamesAreNames DEF ProfilesTyped, Steps, Preparing, Calling, Ended, Tally
<1>2. Frame(d)
  BY DEF Frame
<1>3. Tally(d)'
  BY DEF Tally, Before, Copies, Preparing, Calling, Ended, Steps
<1>4. Responsible(d)'
  BY DEF Responsible, Preparing
<1>5. Spent(d)'
  BY BoundsAssumption DEF Spent, Preparing, Calling, Ended, Steps
<1> QED BY <1>1, <1>2, <1>3, <1>4, <1>5 DEF Kept

LEMMA UnloadKeeps ==
    ASSUME NEW d \in Deliveries, IInv, Unload(d)
    PROVE  Kept(d)
<1> USE DEF IInv, TypeOK, Unload, Goto, KeepFiles, CleanUp, Abort, Proceed, Count,
        Again, NoMore, SetCard, AfterUnload
<1>1. TypeOK'
  BY NamesAreNames DEF ProfilesTyped, Steps, Preparing, Calling, Ended, Tally
<1>2. Frame(d)
  BY DEF Frame
<1>3. Tally(d)'
  BY DEF Tally, Before, Copies, Preparing, Calling, Ended, Steps
<1>4. Responsible(d)'
  BY DEF Responsible, Preparing
<1>5. Spent(d)'
  BY BoundsAssumption DEF Spent, Preparing, Calling, Ended, Steps
<1> QED BY <1>1, <1>2, <1>3, <1>4, <1>5 DEF Kept

LEMMA SendKeeps ==
    ASSUME NEW d \in Deliveries, IInv, Send(d)
    PROVE  Kept(d)
<1> USE DEF IInv, TypeOK, Send, Goto, KeepFiles, CleanUp, Abort, Proceed, Count,
        Again, NoMore, Save, PutAudio
<1>1. TypeOK'
  BY NamesAreNames DEF ProfilesTyped, Steps, Preparing, Calling, Ended, Tally
<1>2. Frame(d)
  BY DEF Frame
<1>3. Tally(d)'
  BY DEF Tally, Before, Copies, Preparing, Calling, Ended, Steps
<1>4. Responsible(d)'
  BY DEF Responsible, Preparing
<1>5. Spent(d)'
  BY BoundsAssumption DEF Spent, Preparing, Calling, Ended, Steps
<1> QED BY <1>1, <1>2, <1>3, <1>4, <1>5 DEF Kept

LEMMA TidyKeeps ==
    ASSUME NEW d \in Deliveries, IInv, Tidy(d)
    PROVE  Kept(d)
<1> USE DEF IInv, TypeOK, Tidy, Goto, KeepFiles, CleanUp, Abort, Proceed, Count,
        Again, NoMore
<1>1. TypeOK'
  BY NamesAreNames DEF ProfilesTyped, Steps, Preparing, Calling, Ended, Tally
<1>2. Frame(d)
  BY DEF Frame
<1>3. Tally(d)'
  BY DEF Tally, Before, Copies, Preparing, Calling, Ended, Steps
<1>4. Responsible(d)'
  BY DEF Responsible, Preparing
<1>5. Spent(d)'
  BY BoundsAssumption DEF Spent, Preparing, Calling, Ended, Steps
<1> QED BY <1>1, <1>2, <1>3, <1>4, <1>5 DEF Kept

LEMMA FinishKeeps ==
    ASSUME NEW d \in Deliveries, IInv, Finish(d)
    PROVE  Kept(d)
<1> USE DEF IInv, TypeOK, Finish, Goto, CleanUp, Abort, Count
<1>1. TypeOK'
  BY NamesAreNames DEF ProfilesTyped, Steps, Preparing, Calling, Ended, Tally
<1>2. Frame(d)
  BY DEF Frame
<1>3. Tally(d)'
  BY DEF Tally, Before, Copies, Preparing, Calling, Ended, Steps
<1>4. Responsible(d)'
  BY DEF Responsible, Preparing
<1>5. Spent(d)'
  BY BoundsAssumption DEF Spent, Preparing, Calling, Ended, Steps
<1> QED BY <1>1, <1>2, <1>3, <1>4, <1>5 DEF Kept

LEMMA ExcuseKeeps ==
    ASSUME NEW d \in Deliveries, IInv, Excuse(d)
    PROVE  Kept(d)
<1> USE DEF IInv, TypeOK, Excuse, Goto, Count
<1>1. TypeOK'
  BY NamesAreNames DEF ProfilesTyped, Steps, Preparing, Calling, Ended, Tally
<1>2. Frame(d)
  BY DEF Frame
<1>3. Tally(d)'
  BY DEF Tally, Before, Copies, Preparing, Calling, Ended, Steps
<1>4. Responsible(d)'
  BY DEF Responsible, Preparing
<1>5. Spent(d)'
  BY BoundsAssumption DEF Spent, Preparing, Calling, Ended, Steps
<1> QED BY <1>1, <1>2, <1>3, <1>4, <1>5 DEF Kept

LEMMA StepKeeps ==
    ASSUME NEW d \in Deliveries, IInv, Begin(d) \/ Progress(d)
    PROVE  Kept(d)
BY PrepareKeeps, UploadKeeps, EditKeeps, UnloadKeeps, SendKeeps, TidyKeeps, FinishKeeps,
   ExcuseKeeps DEF Progress, Call

\* What is said of the others stays.
LEMMA OthersStay ==
    ASSUME NEW d \in Deliveries, NEW e \in Deliveries, e # d, IInv, Frame(d)
    PROVE  Tally(e)' /\ Spent(e)' /\ Responsible(e)'
BY DEF Frame, IInv, Tally, Spent, Before, Copies, Responsible

-----------------------------------------------------------------------------
(* Leftovers *)

\* What a step of d does to the files: it adds some that it will delete, it
\* deletes its own, it leaves what it has behind, or it only tells the card.
FileEffect(d) ==
    \/ /\ mine[d] \subseteq mine'[d] /\ files' \subseteq files \cup mine'[d]
       /\ left' = left /\ step'[d] \notin Ended \cup {"excuse"}
    \/ files' = files /\ left' = left /\ step[d] = "excuse"
    \/ files' = files \ mine[d] /\ left' = left \ mine[d]
    \/ files' = files /\ left' = left \cup (mine[d] \cap files)

LEMMA EffectOnFiles ==
    ASSUME NEW d \in Deliveries, IInv, Begin(d) \/ Progress(d)
    PROVE  FileEffect(d)
<1> USE DEF FileEffect, IInv, TypeOK, Responsible, Goto, Ended
<1>1. CASE Begin(d)
  BY <1>1 DEF Begin
<1>2. CASE Prepare(d)
  BY <1>2 DEF Prepare, LoadCover, LookUp, StartDownload, EndDownload, StartEncoding,
     EndEncoding, CheckSize, FailPreparing
<1>3. CASE Call(d)
  BY <1>3 DEF Call, Upload, Edit, Unload, Send, Tidy, KeepFiles, CleanUp, Abort, Proceed,
     Again, AfterEdit, AfterUnload
<1>4. CASE Finish(d)
  BY <1>4 DEF Finish, CleanUp, Abort
<1>5. CASE Excuse(d)
  BY <1>5 DEF Excuse
<1> QED BY <1>1, <1>2, <1>3, <1>4, <1>5 DEF Progress

LEMMA LeftoversKept ==
    ASSUME NEW d \in Deliveries, IInv, Frame(d), FileEffect(d)
    PROVE  LeftoversAreOfFailures'
<1> SUFFICES ASSUME NEW f \in files', f \notin left'
             PROVE  \E e \in Deliveries : f \in mine'[e] /\ step'[e] \notin Ended \cup {"excuse"}
  BY DEF LeftoversAreOfFailures
<1>1. ASSUME f \in files, f \notin left
      PROVE  \E e \in Deliveries : f \in mine[e] /\ step[e] \notin Ended \cup {"excuse"}
  BY <1>1 DEF IInv, LeftoversAreOfFailures
<1>2. CASE f \in mine'[d] /\ step'[d] \notin Ended \cup {"excuse"}
  BY <1>2
<1>3. CASE ~(f \in mine'[d] /\ step'[d] \notin Ended \cup {"excuse"})
  <2>1. f \in files /\ f \notin left
    BY <1>3 DEF FileEffect
  <2>2. PICK e \in Deliveries : f \in mine[e] /\ step[e] \notin Ended \cup {"excuse"}
    BY <1>1, <2>1
  <2>3. e # d
    BY <1>3, <2>1, <2>2 DEF FileEffect
  <2> QED BY <2>2, <2>3 DEF Frame
<1> QED BY <1>2, <1>3

-----------------------------------------------------------------------------
LEMMA RestartKeeps == IInv /\ Restart => IInv'
<1> SUFFICES ASSUME IInv, Restart PROVE IInv'
  OBVIOUS
<1> USE DEF IInv, Restart, chat, Ended
<1>1. TypeOK'
  BY DEF TypeOK, Steps
<1>2. ASSUME NEW d \in Deliveries PROVE Tally(d)' /\ Spent(d)' /\ Responsible(d)'
  BY <1>2 DEF TypeOK, Tally, Spent, Before, Copies, Responsible, Preparing
<1>3. LeftoversAreOfFailures'
  BY DEF LeftoversAreOfFailures
<1> QED BY <1>1, <1>2, <1>3

LEMMA NextInv == IInv /\ [Next]_vars => IInv'
<1> SUFFICES ASSUME IInv, [Next]_vars PROVE IInv'
  OBVIOUS
<1>1. CASE Restart
  BY <1>1, RestartKeeps
<1>2. ASSUME NEW d \in Deliveries, Begin(d) \/ Progress(d) PROVE IInv'
  <2>1. Kept(d)
    BY <1>2, StepKeeps
  <2>2. LeftoversAreOfFailures'
    BY <1>2, <2>1, EffectOnFiles, LeftoversKept DEF Kept
  <2>3. \A e \in Deliveries : Tally(e)' /\ Spent(e)' /\ Responsible(e)'
    BY <2>1, OthersStay DEF Kept
  <2> QED BY <2>1, <2>2, <2>3 DEF Kept, IInv
<1>3. CASE UNCHANGED vars
  BY <1>3 DEF vars, IInv, TypeOK, Tally, Spent, Before, Copies, Responsible, LeftoversAreOfFailures
<1> QED BY <1>1, <1>2, <1>3 DEF Next

(* The invariant behind the theorems below. *)
THEOREM Invariance == Spec => []IInv
BY InitInv, NextInv, PTL DEF Spec

(* Every variable of the deliveries stays in its type. *)
THEOREM TypeCorrectness == Spec => []TypeOK
<1>1. IInv => TypeOK
  BY DEF IInv
<1> QED BY <1>1, Invariance, PTL

(* A delivery that ended well left its audio in the chat, once and once more *)
(* at most for each lost, refused or failed call, however the upload, the retries    *)
(* and the fallback of _replace_message_with_audio met.                      *)
THEOREM EveryAudioIsDeliveredOnce == Spec => []DeliveredOnce
<1>1. IInv => DeliveredOnce
  BY DEF IInv, TypeOK, Tally, Copies, DeliveredOnce
<1> QED BY <1>1, Invariance, PTL

(* No delivery has more trouble than two calls repeated to the last attempt  *)
(* and two single ones, whichever answers were lost: telegram_retry gives    *)
(* up, and nothing starts it over.                                           *)
THEOREM AttemptsRunOut == Spec => []RetriesRunOut
<1>1. IInv => RetriesRunOut
  BY DEF IInv, Spent, RetriesRunOut
<1> QED BY <1>1, Invariance, PTL

(* A work file that nobody under way will delete was left by a failed        *)
(* preparation or by a kill, whoever else used the same name.                *)
THEOREM OnlyFailuresLeaveFiles == Spec => []LeftoversAreOfFailures
<1>1. IInv => LeftoversAreOfFailures
  BY DEF IInv
<1> QED BY <1>1, Invariance, PTL

=============================================================================
