------------------------------- MODULE FeishuMedia -------------------------------
(***************************************************************************)
(* Feishu's coroutines of messages with attachments.  Each attachment is   *)
(* downloaded by a thread of the pool, one after the other within a        *)
(* message, those of two messages at the same time; all are stored in one  *)
(* directory under the names the service gives them, as the code cleans    *)
(* them.                                                                   *)
(***************************************************************************)
EXTENDS Integers, Sequences, SequencesExt

CONSTANTS FeishuMessages, \* {}: none
          HeadOf,         \* the first eight characters of a message's id
          FileNames,      \* the names of attachments
          MaxKeys         \* bound: the images of a post, by message

Heads == {HeadOf[m] : m \in FeishuMessages}
Plain == "plain"

\* No id begins with the word for a path without one.
ASSUME MediaAssumption == MaxKeys \in [FeishuMessages -> Nat] /\ Plain \notin Heads

VARIABLES
    stage,  \* of each message: "sent", "reacted", "fetching", "writing", "published", "dropped"
    worded, \* it has a text beside its attachments
    names,  \* the names of its attachments
    stored, \* what its text says of each: the path, or Failed
    path,   \* the path that its thread has found free
    inbox,  \* the files: for each path the attachment in it, or NoFile
    raced   \* history: a path and a message that held it when another one did, each of
            \* whose threads found it free before the other had written it

mediaVars == <<stage, worded, names, stored, path, inbox, raced>>

\* A path has the attachment's name, and the head of the message's id if the name was
\* taken: messages whose ids begin alike have one path for it.
MediaPaths == FileNames \X (Heads \cup {Plain})
Failed == <<"failed">>
NoFile == <<"no file">>

MediaInit ==
    /\ stage = [m \in FeishuMessages |-> "sent"]
    /\ worded = [m \in FeishuMessages |-> FALSE]
    /\ names = [m \in FeishuMessages |-> <<>>] /\ stored = [m \in FeishuMessages |-> <<>>]
    /\ path = [m \in FeishuMessages |-> Failed]
    /\ inbox = [p \in MediaPaths |-> NoFile] /\ raced = {}

-----------------------------------------------------------------------------
\* _on_message: bots and strangers are turned down; the reaction may fail, which
\* is logged.
React(m) ==
    /\ stage[m] = "sent"
    /\ stage' = [stage EXCEPT ![m] = "reacted"]
    /\ UNCHANGED <<worded, names, stored, path, inbox, raced>>

TurnDown(m) ==
    /\ stage[m] = "sent"
    /\ stage' = [stage EXCEPT ![m] = "dropped"]
    /\ UNCHANGED <<worded, names, stored, path, inbox, raced>>

\* A message with these attachments, of which it will say where they are.
Handles(m, text, attached) ==
    /\ stage[m] = "reacted"
    /\ stage' = [stage EXCEPT ![m] = "fetching"]
    /\ worded' = [worded EXCEPT ![m] = text] /\ names' = [names EXCEPT ![m] = attached]
    /\ UNCHANGED <<stored, path, inbox, raced>>

\* A text, and a message of a type that is not known, which has none.
HandleText(m) == \E text \in BOOLEAN : Handles(m, text, <<>>)

\* What a post's payload has: a text or none, and images, each key once.
PostPayloads(m) == [text : BOOLEAN, images : UNION {[1 .. n -> FileNames] : n \in 0 .. MaxKeys[m]}]

HandlePost(m) == \E post \in PostPayloads(m) : Handles(m, post.text, post.images)

\* An image, a file, an audio: without a key, which is put in words, or with one.
HandleImage(m) == Handles(m, TRUE, <<>>) \/ \E n \in FileNames : Handles(m, FALSE, <<n>>)
HandleFile(m)  == Handles(m, TRUE, <<>>) \/ \E n \in FileNames : Handles(m, FALSE, <<n>>)
HandleAudio(m) == Handles(m, TRUE, <<>>) \/ \E n \in FileNames : Handles(m, FALSE, <<n>>)

Next1(m) == names[m][Len(stored[m]) + 1]
Fetching(m) == stage[m] = "fetching" /\ Len(stored[m]) < Len(names[m])

\* The download is refused or breaks off.
DownloadFails(m) ==
    /\ Fetching(m) \/ stage[m] = "writing"
    /\ stage' = [stage EXCEPT ![m] = "fetching"] /\ path' = [path EXCEPT ![m] = Failed]
    /\ stored' = [stored EXCEPT ![m] = Append(@, Failed)]
    /\ UNCHANGED <<worded, names, inbox, raced>>

\* Mutant: a file that is there is overwritten.
Choice_AlwaysPlain(m) == <<Next1(m), Plain>>

\* The thread looks for the file it would write ...
Choice(m) == IF inbox[<<Next1(m), Plain>>] = NoFile THEN <<Next1(m), Plain>>
             ELSE <<Next1(m), HeadOf[m]>>

ChoosePath(m) ==
    /\ Fetching(m)
    /\ stage' = [stage EXCEPT ![m] = "writing"] /\ path' = [path EXCEPT ![m] = Choice(m)]
    /\ LET holders == {o \in FeishuMessages : path[o] = Choice(m)}
       IN  raced' = IF holders = {} THEN raced
                    ELSE raced \cup {Choice(m)} \X (holders \cup {m})
    /\ UNCHANGED <<worded, names, stored, inbox>>

\* ... and writes it.
WriteMedia(m) ==
    /\ stage[m] = "writing"
    /\ inbox' = [inbox EXCEPT ![path[m]] = <<m, Len(stored[m]) + 1>>]
    /\ stored' = [stored EXCEPT ![m] = Append(@, path[m])]
    /\ stage' = [stage EXCEPT ![m] = "fetching"] /\ path' = [path EXCEPT ![m] = Failed]
    /\ UNCHANGED <<worded, names, raced>>

\* Downloaded or not, each attachment is in the text; without a text there is no message.
PublishMedia(m) ==
    /\ stage[m] = "fetching" /\ ~Fetching(m)
    /\ stage' = [stage EXCEPT ![m] = IF worded[m] \/ stored[m] # <<>> THEN "published" ELSE "dropped"]
    /\ UNCHANGED <<worded, names, stored, path, inbox, raced>>

MediaNext ==
    \E m \in FeishuMessages :
       \/ React(m) \/ TurnDown(m)
       \/ HandleText(m) \/ HandlePost(m) \/ HandleImage(m) \/ HandleFile(m) \/ HandleAudio(m)
       \/ DownloadFails(m) \/ ChoosePath(m) \/ WriteMedia(m) \/ PublishMedia(m)

MediaSpec == MediaInit /\ [][MediaNext]_mediaVars

-----------------------------------------------------------------------------
\* The k-th attachment of m is the file at path p, or was replaced: under its own name
\* by one whose thread found the name free at the same time, and under the longer name
\* by one of the same name, of a message whose id begins alike.
Keeps(m, k, p) ==
    \/ inbox[p] = <<m, k>>
    \/ /\ inbox[p] # NoFile
       /\ \/ p[2] = Plain /\ {p} \X {m, inbox[p][1]} \subseteq raced
          \/ /\ p[2] # Plain /\ inbox[<<p[1], Plain>>] # NoFile
             /\ HeadOf[inbox[p][1]] = HeadOf[m]

\* A message that is published says of each of its attachments where it is, or that
\* it is not there; one that had an attachment is published; a file is what some
\* message says is there, and not replaced, except between two threads that both found
\* the name free and among third and later files of a name, of messages whose ids
\* begin alike (or of one post).
AttachmentsKept ==
    /\ \A m \in FeishuMessages :
         /\ stage[m] = "published" => Len(stored[m]) = Len(names[m])
         /\ stage[m] = "dropped" => names[m] = <<>>
         /\ \A k \in DOMAIN stored[m] :
               stored[m][k] # Failed =>
                  stored[m][k][1] = names[m][k] /\ Keeps(m, k, stored[m][k])
    /\ \A p \in MediaPaths :
         inbox[p] # NoFile => stored[inbox[p][1]][inbox[p][2]] = p
==================================================================================
