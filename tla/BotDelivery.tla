---------------------------- MODULE BotDelivery ----------------------------
(***************************************************************************)
(* How the Telegram bot turns a loading card into an audio message         *)
(* (src/discocs_bot/bot/services/delivery.py, utils/loading_delivery.py).  *)
(* A delivery is an asyncio task of its own.  It fetches the song into a   *)
(* work file, encodes it or sends it as it is, uploads it as a message of  *)
(* its own to learn a file_id, edits the card into that audio and deletes  *)
(* the upload again; a file_id in the cache skips the first half.          *)
(*                                                                         *)
(* All deliveries here are of one song: work files are named by the song   *)
(* and not by the delivery, so what one writes another overwrites, and     *)
(* what one deletes the other misses.  Which bytes are in a file is left   *)
(* out; whether it is there is not.  Telegram may answer a call, do it     *)
(* and lose the answer, or refuse it, and the bot's database may fail.     *)
(***************************************************************************)
EXTENDS Integers, FiniteSets

CONSTANTS
    Deliveries,   \* the tasks started for the song
    Profiles,     \* quality settings: [key, source, out, original, document]
    Slots,        \* transcode_workers
    Attempts,     \* calls telegram_retry makes before it gives up
    MaxTrouble    \* bound: lost, refused and failed calls of each delivery

\* profile.source and profile.out are file names; a profile that is original
\* sends the source itself, one that is document sends a document.
Cover == "cover"
Paths == {Cover} \cup {p.source : p \in Profiles} \cup {p.out : p \in Profiles}
Keys == {p.key : p \in Profiles}

ASSUME BoundsAssumption ==
    /\ Slots \in Nat \ {0} /\ Attempts \in Nat \ {0} /\ MaxTrouble \in [Deliveries -> Nat]
ASSUME ProfilesAssumption ==
    /\ Profiles # {}
    /\ \A p \in Profiles : p.original \in BOOLEAN /\ p.document \in BOOLEAN

VARIABLES
    step,      \* where each delivery is
    profile,   \* the quality it delivers in
    mine,      \* the work files it deletes when it is through
    tries,     \* attempts of the Telegram call under way
    uploaded,  \* it has uploaded the audio as a message of its own
    card,      \* its loading card in the chat
    loose,     \* audio messages it has put in the chat beside the card
    trouble,   \* its calls that Telegram lost or refused, or the database failed
    files,     \* the work files of the song on the disk
    left,      \* files left by a failed preparation or by a kill
    cached     \* telegram_audio_cache: keys with a file_id

vars == <<step, profile, mine, tries, uploaded, card, loose, trouble,
          files, left, cached>>

Preparing == {"song", "lookup", "download", "downloading", "encode",
              "encoding", "check"}
Calling == {"upload", "edit", "unload", "send", "tidy"}
Ended == {"done", "failed", "killed"}
Steps == {"idle", "finish", "excuse"} \cup Preparing \cup Calling \cup Ended

TypeOK ==
    /\ step \in [Deliveries -> Steps]
    /\ profile \in [Deliveries -> Profiles]
    /\ mine \in [Deliveries -> SUBSET Paths]
    /\ tries \in [Deliveries -> Nat]
    /\ uploaded \in [Deliveries -> BOOLEAN]
    /\ card \in [Deliveries -> {"none", "loading", "audio", "note", "gone"}]
    /\ loose \in [Deliveries -> Nat]
    /\ trouble \in [Deliveries -> Nat]
    /\ files \subseteq Paths /\ left \subseteq Paths
    /\ cached \subseteq Keys

Init ==
    /\ step = [d \in Deliveries |-> "idle"]
    /\ profile = [d \in Deliveries |-> CHOOSE p \in Profiles : TRUE]
    /\ mine = [d \in Deliveries |-> {}]
    /\ tries = [d \in Deliveries |-> 0]
    /\ uploaded = [d \in Deliveries |-> FALSE]
    /\ card = [d \in Deliveries |-> "none"]
    /\ loose = [d \in Deliveries |-> 0]
    /\ trouble = [d \in Deliveries |-> 0]
    /\ files = {} /\ left = {} /\ cached \in SUBSET Keys

-----------------------------------------------------------------------------
(* Preparation *)

chat == <<card, loose, trouble>>
Goto(d, s) == step' = [step EXCEPT ![d] = s]

\* The file the delivery sends: the source as it is, or the encoder's output.
SendPath(d) == IF profile[d].original THEN profile[d].source ELSE profile[d].out

\* An error before the try block: nothing is cleaned up, the card is told.
FailPreparing(d) ==
    /\ Goto(d, "excuse")
    /\ left' = left \cup (mine[d] \cap files)
    /\ UNCHANGED <<profile, mine, tries, uploaded, chat, files, cached>>

\* The card is in the chat and the task is started.
Begin(d) ==
    /\ step[d] = "idle"
    /\ Goto(d, "song")
    /\ card' = [card EXCEPT ![d] = "loading"]
    /\ UNCHANGED <<profile, mine, tries, uploaded, loose, trouble, files, left, cached>>

\* The song is known; its cover is a file where Navidrome gave one.
LoadCover(d) ==
    /\ step[d] = "song"
    /\ Goto(d, "lookup")
    /\ \E got \in SUBSET {Cover} :
         /\ files' = files \cup got
         /\ mine' = [mine EXCEPT ![d] = got]
    /\ UNCHANGED <<profile, tries, uploaded, chat, left, cached>>

\* The user's settings are read; a file_id in the cache goes to the card.
LookUp(d) ==
    /\ step[d] = "lookup"
    /\ \E p \in Profiles :
         /\ profile' = [profile EXCEPT ![d] = p]
         /\ Goto(d, IF p.key \in cached THEN "edit" ELSE "download")
    /\ UNCHANGED <<mine, tries, uploaded, chat, files, left, cached>>

\* Opening the source truncates the one another delivery may be reading.
StartDownload(d) ==
    /\ step[d] = "download"
    /\ Goto(d, "downloading")
    /\ files' = files \cup {profile[d].source}
    /\ mine' = [mine EXCEPT ![d] = @ \cup {profile[d].source, profile[d].out}]
    /\ UNCHANGED <<profile, tries, uploaded, chat, left, cached>>

EndDownload(d) ==
    /\ step[d] = "downloading"
    /\ Goto(d, IF profile[d].original THEN "check" ELSE "encode")
    /\ UNCHANGED <<profile, mine, tries, uploaded, chat, files, left, cached>>

\* Faulty: a place is taken for waiting and another for encoding.
EncodingOrWaiting == {e \in Deliveries : step[e] \in {"encode", "encoding"}}

\* The holders of the transcoder's semaphore.
Encoding == {e \in Deliveries : step[e] = "encoding"}

\* ffmpeg -y, at most Slots of them; without its input it writes nothing.
StartEncoding(d) ==
    /\ step[d] = "encode"
    /\ Cardinality(Encoding) < Slots
    /\ Goto(d, "encoding")
    /\ files' = files \cup {p \in {profile[d].out} : profile[d].source \in files}
    /\ UNCHANGED <<profile, mine, tries, uploaded, chat, left, cached>>

EndEncoding(d) ==
    /\ step[d] = "encoding"
    /\ Goto(d, "check")
    /\ UNCHANGED <<profile, mine, tries, uploaded, chat, files, left, cached>>

\* The size is read from the disk: another delivery may have deleted the file.
CheckSize(d) ==
    /\ step[d] = "check"
    /\ SendPath(d) \in files
    /\ Goto(d, "upload")
    /\ UNCHANGED <<profile, mine, tries, uploaded, chat, files, left, cached>>

\* Navidrome, the database, ffmpeg, the size or a missing file ends the
\* preparation.
Prepare(d) ==
    \/ LoadCover(d) \/ LookUp(d) \/ StartDownload(d) \/ EndDownload(d)
    \/ StartEncoding(d) \/ EndEncoding(d) \/ CheckSize(d)
    \/ step[d] \in Preparing \ {"encode"} /\ FailPreparing(d)

-----------------------------------------------------------------------------
(* Telegram *)

\* Faulty: the encoder's output is not among the files to delete.
CleanUpSource(d) ==
    /\ files' = files \ (mine[d] \ {profile[d].out})
    /\ left' = left \ mine[d]
    /\ mine' = [mine EXCEPT ![d] = {}]

\* PreparedAudio.cleanup and the cover's: the finally of a delivery.
CleanUp(d) ==
    /\ files' = files \ mine[d]
    /\ left' = left \ mine[d]
    /\ mine' = [mine EXCEPT ![d] = {}]

KeepFiles == UNCHANGED <<mine, files, left>>

\* An exception inside the try block: the files go, then the card is told.
Abort(d) ==
    /\ Goto(d, "excuse")
    /\ CleanUp(d)
    /\ tries' = [tries EXCEPT ![d] = 0]

\* On to step s, the files as they are.
Proceed(d, s) ==
    /\ Goto(d, s)
    /\ tries' = [tries EXCEPT ![d] = 0]
    /\ KeepFiles

\* One more call is lost, refused or failed; the guard is the bound.
Count(d) ==
    /\ trouble[d] < MaxTrouble[d]
    /\ trouble' = [trouble EXCEPT ![d] = @ + 1]

\* Faulty: the attempts are not counted.
AgainForEver(d) == UNCHANGED <<step, tries>> /\ KeepFiles

\* telegram_retry after a timeout or a NetworkError: once more while attempts
\* are left.
Again(d) ==
    /\ tries[d] + 1 < Attempts
    /\ tries' = [tries EXCEPT ![d] = @ + 1]
    /\ UNCHANGED step /\ KeepFiles

NoMore(d) == tries[d] + 1 >= Attempts

Save(d) == cached' = cached \cup {profile[d].key}
PutAudio(d) == loose' = [loose EXCEPT ![d] = @ + 1]
SetCard(d, c) == card' = [card EXCEPT ![d] = c]

\* The bytes are read when the file is opened, before the first attempt.  A
\* file_id that cannot be saved fails the delivery after the message is sent.
Upload(d) ==
    /\ step[d] = "upload"
    /\ UNCHANGED <<profile, card>>
    /\ \/ tries[d] = 0 /\ SendPath(d) \notin files
          /\ Abort(d) /\ UNCHANGED <<loose, trouble, uploaded, cached>>
       \/ /\ tries[d] > 0 \/ SendPath(d) \in files
          /\ \/ PutAudio(d) /\ Save(d) /\ Proceed(d, "edit")
                /\ uploaded' = [uploaded EXCEPT ![d] = TRUE]
                /\ UNCHANGED trouble
             \/ /\ UNCHANGED <<uploaded, cached>>
                /\ \/ Abort(d) /\ UNCHANGED <<loose, trouble>>   \* not taken for audio
                   \/ Count(d) /\ Abort(d) /\ UNCHANGED loose    \* not a NetworkError
                   \/ Count(d) /\ Abort(d) /\ PutAudio(d)        \* not saved
                   \/ /\ Count(d) /\ (PutAudio(d) \/ UNCHANGED loose)
                      /\ Again(d) \/ (NoMore(d) /\ Abort(d))

\* Faulty: what a cached file_id put into the card is deleted as an upload.
AfterEditDeletes(d) == "tidy"

AfterEdit(d) == IF uploaded[d] THEN "tidy" ELSE "finish"

Edit(d) ==
    /\ step[d] = "edit"
    /\ UNCHANGED <<profile, uploaded, loose>>
    /\ \/ SetCard(d, "audio") /\ UNCHANGED trouble
          /\ Proceed(d, AfterEdit(d))
          /\ IF profile[d].document THEN UNCHANGED cached ELSE Save(d)
       \/ /\ Count(d) /\ UNCHANGED cached
          /\ \/ Abort(d) /\ UNCHANGED card
             \/ Abort(d) /\ SetCard(d, "audio") /\ ~profile[d].document  \* not saved
             \/ /\ SetCard(d, "audio") \/ UNCHANGED card
                /\ Again(d) \/ (NoMore(d) /\ Proceed(d, "unload"))

\* Faulty: a file_id from the cache is not sent after the card is deleted.
AfterUnloadReturns(d) == "finish"

AfterUnload(d) == IF uploaded[d] THEN "finish" ELSE "send"

\* The fallback: the card goes; the upload stays in its place if there is one.
Unload(d) ==
    /\ step[d] = "unload"
    /\ UNCHANGED <<profile, uploaded, loose, cached>>
    /\ \/ /\ \/ SetCard(d, "gone") /\ UNCHANGED trouble
             \/ UNCHANGED card /\ Count(d)
          /\ Proceed(d, AfterUnload(d))
       \/ Count(d) /\ (SetCard(d, "gone") \/ UNCHANGED card) /\ Abort(d)

Send(d) ==
    /\ step[d] = "send"
    /\ UNCHANGED <<profile, uploaded, card>>
    /\ \/ PutAudio(d) /\ Save(d) /\ Proceed(d, "finish") /\ UNCHANGED trouble
       \/ /\ UNCHANGED cached /\ Count(d)
          /\ \/ Abort(d) /\ UNCHANGED loose
             \/ Abort(d) /\ PutAudio(d)   \* not saved
             \/ /\ PutAudio(d) \/ UNCHANGED loose
                /\ Again(d) \/ (NoMore(d) /\ Abort(d))

\* Deleting the upload: a BadRequest is swallowed, any other error is not.
Tidy(d) ==
    /\ step[d] = "tidy"
    /\ UNCHANGED <<profile, uploaded, card, cached>>
    /\ LET deleted == loose' = [loose EXCEPT ![d] = @ - 1]
       IN \/ deleted /\ UNCHANGED trouble /\ Proceed(d, "finish")
          \/ UNCHANGED loose /\ Count(d) /\ Proceed(d, "finish")
          \/ (deleted \/ UNCHANGED loose) /\ Count(d) /\ Abort(d)

\* _finalize_delivery logs the event; its insert may fail, and then the
\* delivery has failed although its audio is in the chat.
Finish(d) ==
    /\ step[d] = "finish"
    /\ \/ Goto(d, "done") /\ CleanUp(d) /\ UNCHANGED <<tries, trouble>>
       \/ Count(d) /\ Abort(d)
    /\ UNCHANGED <<profile, uploaded, card, loose, cached>>

\* The text replaces the loading card.  On a card that became audio it is a
\* caption, and a card that is gone cannot be edited.
Excuse(d) ==
    /\ step[d] = "excuse"
    /\ Goto(d, "failed")
    /\ LET told == card' = [card EXCEPT ![d] = IF @ = "loading" THEN "note" ELSE @]
       IN \/ told /\ UNCHANGED trouble
          \/ (told \/ UNCHANGED card) /\ Count(d)
    /\ UNCHANGED <<profile, mine, tries, uploaded, loose, files, left, cached>>

\* The process dies and starts again; the sweep deletes the files that are old
\* enough, and the card of a delivery under way stays as it is.
Restart ==
    /\ \E d \in Deliveries : step[d] \notin Ended \cup {"idle"}
    /\ step' = [d \in Deliveries |->
                  IF step[d] \in Ended \cup {"idle"} THEN step[d] ELSE "killed"]
    /\ mine' = [d \in Deliveries |-> {}]
    /\ \E old \in SUBSET files : files' = files \ old
    /\ left' = files'
    /\ UNCHANGED <<profile, tries, uploaded, chat, cached>>

Call(d) == Upload(d) \/ Edit(d) \/ Unload(d) \/ Send(d) \/ Tidy(d)
Progress(d) == Prepare(d) \/ Call(d) \/ Finish(d) \/ Excuse(d)

Next == Restart \/ \E d \in Deliveries : Begin(d) \/ Progress(d)

Spec == Init /\ [][Next]_vars

\* A task runs on; the semaphore of the encoder is first come, first served.
Fairness == \A d \in Deliveries :
    WF_vars(Progress(d)) /\ SF_vars(StartEncoding(d))
FairSpec == Spec /\ Fairness

-----------------------------------------------------------------------------
(* Properties *)

Copies(d) == loose[d] + (IF card[d] = "audio" THEN 1 ELSE 0)

(* A delivery that ended well has left its audio in the chat, in the card or *)
(* beside it, once, and once more at most for every call that was lost,      *)
(* refused or failed: the upload made for a file_id, the calls               *)
(* telegram_retry repeats and the fallback that deletes the card never add   *)
(* up to more, nor to nothing (_replace_message_with_audio).  One that       *)
(* failed although every call was answered has told so on its card and left  *)
(* no audio.                                                                 *)
DeliveredOnce == \A d \in Deliveries :
    /\ step[d] = "done" => Copies(d) \in 1 .. 1 + trouble[d]
    /\ step[d] = "failed" =>
         /\ Copies(d) <= 1 + trouble[d]
         /\ trouble[d] = 0 => card[d] = "note" /\ Copies(d) = 0

(* A work file that no delivery under way will delete was left by one that   *)
(* failed before its try block or was killed: a delivery that got as far as  *)
(* Telegram leaves nothing, whatever the others do to the same files.        *)
LeftoversAreOfFailures == \A f \in files :
    f \in left \/ \E d \in Deliveries : f \in mine[d] /\ step[d] \notin Ended \cup {"excuse"}

(* Attempts run out: in all its life a delivery makes two calls that may be  *)
(* repeated and fail to the last attempt, one that fails and is not repeated *)
(* or not saved, and one to say so.  A telegram_retry that loses count of    *)
(* its attempts under some order of lost answers would go beyond that.       *)
RetriesRunOut == \A d \in Deliveries : trouble[d] <= 2 * Attempts + 2

(* Every delivery that began comes to an end: the attempts of telegram_retry *)
(* run out, and a place at the encoder is given back.                        *)
DeliveriesEnd == <>[](\A d \in Deliveries : step[d] \in Ended \cup {"idle"})

=============================================================================
