------------------------------ MODULE FileSaver ------------------------------
(***************************************************************************)
(* saveAs (filesaver.js): a save hands a blob to the user by a download    *)
(* link, else as a file it writes in the "saved" directory of the          *)
(* browser's file system, else as an object URL.  The file system answers  *)
(* one request after the other in callbacks; the page may abort a save, or *)
(* be left, at any time between them.                                      *)
(***************************************************************************)
EXTENDS Naturals, Sequences

CONSTANTS
  Savers,  \* calls of saveAs, by number
  Names,   \* file names asked for
  Fss,     \* req_fs: "none", "webkit" or "standard"
  NoFile   \* a name the directory does not have

ASSUME SaverAssumption ==
  /\ Savers \subseteq Nat \ {0}
  /\ Fss \subseteq {"none", "webkit", "standard"}
  /\ \A file \in SUBSET Savers : file # NoFile

VARIABLES
  env,         \* the browser: can_use_save_link, and its file system
  at,          \* the callback each save waits for
  readyState,  \* filesaver.readyState
  save,        \* name of each save, and whether its type is octet-stream
  dir,         \* the directory: the saves that wrote to a file, or NoFile
  queue,       \* deletion_queue: object URLs by save, files by name
  urls,        \* object URLs not revoked
  opened,      \* what each save gave the user, in order
  heard,       \* events dispatched to the listeners of each save
  abortedAt,   \* history: the callback a save waited for as it was aborted
  failed,      \* history: saves that met an error of the file system
  shared,      \* history: saves under way beside one of the same name
  closed       \* the page was left

saverVars == <<env, at, readyState, save, dir, queue, urls, opened, heard,
          abortedAt, failed, shared, closed>>

Waits == {"filesystem", "directory", "lookup", "file", "writer", "writing",
          "aborting"}
UnderWay(s) == at[s] \in Waits

Ways == [way : {"link", "url"}, data : {{s} : s \in Savers}]
          \cup [way : {"file"}, data : SUBSET Savers]
QueueEntries == [url : Savers] \cup [file : Names]

SaverTypeOK ==
  /\ at \in [Savers -> Waits \cup {"idle", "end", "gone"}]
  /\ readyState \in [Savers -> {"INIT", "WRITING", "DONE"}]
  /\ \A s \in Savers :
       /\ opened[s] \in Seq(Ways) /\ Len(opened[s]) <= 2
       /\ at[s] = "writing" => readyState[s] = "WRITING"
       /\ readyState[s] = "WRITING" /\ at[s] # "gone" /\ env.fs = "webkit" =>
            at[s] = "writing"
  /\ dir \in [Names -> (SUBSET Savers) \cup {NoFile}]
  /\ queue \in Seq(QueueEntries) /\ urls \subseteq Savers

SaverInit ==
  /\ env \in [saveLink : BOOLEAN, fs : Fss]
  /\ at = [s \in Savers |-> "idle"]
  /\ readyState = [s \in Savers |-> "INIT"]
  /\ save = [s \in Savers |-> [name |-> NoFile, octet |-> FALSE]]
  /\ dir = [n \in Names |-> NoFile] /\ queue = <<>> /\ urls = {}
  /\ opened = [s \in Savers |-> <<>>] /\ heard = [s \in Savers |-> <<>>]
  /\ abortedAt = [s \in Savers |-> "no"]
  /\ failed = {} /\ shared = {} /\ closed = FALSE

-----------------------------------------------------------------------------
Goto(s, place) == at' = [at EXCEPT ![s] = place]
Becomes(s, state) == readyState' = [readyState EXCEPT ![s] = state]
Hear(s, events) == heard' = [heard EXCEPT ![s] = @ \o events]
Open(s, ways) == opened' = [opened EXCEPT ![s] = @ \o ways]

(* get_object_url.                                                         *)
GetObjectUrl(s) ==
  /\ queue' = Append(queue, [url |-> s]) /\ urls' = urls \cup {s}

(* dispatch goes through the events from the last one to the first.        *)
AllEvents == <<"writeend", "write", "progress", "writestart">>

(* fs_error, which no abort keeps from opening the object URL.             *)
FsError(s) ==
  /\ GetObjectUrl(s) /\ Open(s, <<[way |-> "url", data |-> {s}]>>)
  /\ Becomes(s, "DONE") /\ Hear(s, AllEvents)

(* The constructor.  The listeners of a save that is done when it returns  *)
(* are set too late to hear of it.                                         *)
SaveAs(s, n, octet) ==
  /\ ~closed /\ at[s] = "idle" /\ \A t \in Savers : t < s => at[t] # "idle"
  /\ save' = [save EXCEPT ![s] = [name |-> n, octet |-> octet]]
  /\ IF env.saveLink \/ env.fs = "none"
     THEN /\ GetObjectUrl(s) /\ Becomes(s, "DONE") /\ Goto(s, "end")
          /\ Open(s, <<[way |-> IF env.saveLink THEN "link" ELSE "url",
                        data |-> {s}]>>)
          /\ UNCHANGED shared
     ELSE LET same == {t \in Savers : UnderWay(t) /\ save[t].name = n}
          IN  /\ Goto(s, "filesystem")
              /\ shared' = shared \cup same
                             \cup (IF same = {} THEN {} ELSE {s})
              /\ UNCHANGED <<queue, urls, opened, readyState>>
  /\ UNCHANGED <<env, dir, heard, abortedAt, failed, closed>>

(* A callback wrapped by abortable does nothing once the save is DONE.     *)
Abortable(s, next) ==
  Goto(s, IF readyState[s] # "DONE" THEN next ELSE "end")

FileSystemAnswers(s) ==
  /\ at[s] = "filesystem" /\ Abortable(s, "directory")
  /\ UNCHANGED <<env, readyState, save, dir, queue, urls, opened, heard,
                 abortedAt, failed, shared, closed>>

DirectoryAnswers(s) ==
  /\ at[s] = "directory" /\ Abortable(s, "lookup")
  /\ UNCHANGED <<env, readyState, save, dir, queue, urls, opened, heard,
                 abortedAt, failed, shared, closed>>

(* Mutant: the file that exists is not removed.                          *)
LookupKeepsFile(s) ==
  /\ at[s] = "lookup" /\ Abortable(s, "file")
  /\ UNCHANGED dir
  /\ UNCHANGED <<env, readyState, save, queue, urls, opened, heard, abortedAt,
                 failed, shared, closed>>

(* The lookup without create finds the file, which is removed, or answers  *)
(* that there is none.                                                     *)
LookupAnswers(s) ==
  /\ at[s] = "lookup" /\ Abortable(s, "file")
  /\ dir' = [dir EXCEPT ![save[s].name] =
               IF readyState[s] # "DONE" THEN NoFile ELSE @]
  /\ UNCHANGED <<env, readyState, save, queue, urls, opened, heard, abortedAt,
                 failed, shared, closed>>

(* The file was made by the time the callback hears of it.                 *)
FileAnswers(s) ==
  /\ at[s] = "file" /\ Abortable(s, "writer")
  /\ dir' = [dir EXCEPT ![save[s].name] = IF @ = NoFile THEN {} ELSE @]
  /\ UNCHANGED <<env, readyState, save, queue, urls, opened, heard, abortedAt,
                 failed, shared, closed>>

(* Mutant: the callback is not wrapped by abortable.                     *)
WriterAnswersAnyhow(s) ==
  /\ at[s] = "writer" /\ Goto(s, "writing")
  /\ readyState' = [readyState EXCEPT ![s] =
                      "WRITING"]
  /\ UNCHANGED <<env, save, dir, queue, urls, opened, heard, abortedAt,
                 failed, shared, closed>>

WriterAnswers(s) ==
  /\ at[s] = "writer" /\ Abortable(s, "writing")
  /\ readyState' = [readyState EXCEPT ![s] =
                      IF @ # "DONE" THEN "WRITING" ELSE @]
  /\ UNCHANGED <<env, save, dir, queue, urls, opened, heard, abortedAt,
                 failed, shared, closed>>

(* The file a link shows when it is opened: nothing if it was removed.     *)
Shown(file) == IF file = NoFile THEN {} ELSE file

(* writer.onwriteend, after `before` was opened and queued: target_view is *)
(* undefined, and the handler throws, with neither webkit nor the type     *)
(* octet-stream.                                                           *)
HasTargetView(s) == save[s].octet \/ env.fs = "webkit"

WriteEnd(s, file) ==
  /\ queue' = Append(queue, [file |-> save[s].name])
  /\ Open(s, <<[way |-> "file", data |-> Shown(file)]>>)
  /\ Becomes(s, "DONE") /\ Hear(s, <<"writeend">>)
  /\ UNCHANGED urls

WriteEndThrows == UNCHANGED <<queue, urls, opened, readyState, heard>>

Written(s) ==
  dir' = [dir EXCEPT ![save[s].name] = IF @ = NoFile THEN @ ELSE @ \cup {s}]

WriteSucceeds(s) ==
  /\ at[s] = "writing" /\ dir[save[s].name] # NoFile
  /\ Written(s) /\ Goto(s, "end")
  /\ IF HasTargetView(s) THEN WriteEnd(s, dir'[save[s].name])
     ELSE WriteEndThrows
  /\ UNCHANGED <<env, save, abortedAt, failed, shared, closed>>

(* A failed write reports the error and then, as every write, its end.     *)
WriteFails(s) ==
  /\ at[s] = "writing" /\ Goto(s, "end")
  /\ IF HasTargetView(s)
     THEN /\ queue' = queue \o <<[url |-> s], [file |-> save[s].name]>>
          /\ urls' = urls \cup {s}
          /\ Open(s, <<[way |-> "url", data |-> {s}],
                       [way |-> "file", data |-> Shown(dir[save[s].name])]>>)
          /\ Becomes(s, "DONE") /\ Hear(s, Append(AllEvents, "writeend"))
     ELSE FsError(s)
  /\ failed' = failed \cup {s}
  /\ UNCHANGED <<env, save, dir, abortedAt, shared, closed>>

(* writer.abort ends the write too: what was written by then is opened.    *)
WriteAborted(s) ==
  /\ at[s] = "aborting" /\ Goto(s, "end")
  /\ Written(s) \/ UNCHANGED dir
  /\ IF HasTargetView(s)
     THEN /\ queue' = Append(queue, [file |-> save[s].name])
          /\ Open(s, <<[way |-> "file", data |-> Shown(dir'[save[s].name])]>>)
          /\ Becomes(s, "DONE") /\ Hear(s, <<"abort", "writeend">>)
          /\ UNCHANGED urls
     ELSE /\ Hear(s, <<"abort">>)
          /\ UNCHANGED <<queue, urls, opened, readyState>>
  /\ UNCHANGED <<env, save, abortedAt, failed, shared, closed>>

(* The file system refuses a request.  The lookup's error callback is the  *)
(* one wrapped by abortable.                                               *)
RequestFails(s) ==
  /\ at[s] \in {"filesystem", "directory", "lookup", "file", "writer"}
  /\ Goto(s, "end") /\ failed' = failed \cup {s}
  /\ IF at[s] = "lookup" /\ readyState[s] = "DONE"
     THEN UNCHANGED <<queue, urls, opened, readyState, heard>>
     ELSE FsError(s)
  /\ UNCHANGED <<env, save, dir, abortedAt, shared, closed>>

(* abort of the prototype, and the one set when the writing starts.        *)
Abort(s) ==
  /\ UnderWay(s) /\ readyState[s] # "DONE"
  /\ Becomes(s, "DONE") /\ abortedAt' = [abortedAt EXCEPT ![s] = at[s]]
  /\ IF at[s] = "writing" THEN Goto(s, "aborting") /\ UNCHANGED heard
     ELSE Hear(s, <<"abort">>) /\ UNCHANGED at
  /\ UNCHANGED <<env, save, dir, queue, urls, opened, failed, shared, closed>>

(* process_deletion_queue, when the page is left.                          *)
Queued(kind) == {queue[i][kind] : i \in {j \in 1 .. Len(queue) :
                                           kind \in DOMAIN queue[j]}}

ProcessDeletionQueue ==
  /\ urls' = urls \ Queued("url") /\ queue' = <<>>
  /\ dir' = [n \in Names |-> IF n \in Queued("file") THEN NoFile ELSE dir[n]]

Unload ==
  /\ ~closed /\ closed' = TRUE /\ ProcessDeletionQueue
  /\ at' = [s \in Savers |-> IF UnderWay(s) THEN "gone" ELSE at[s]]
  /\ UNCHANGED <<env, readyState, save, opened, heard, abortedAt, failed,
                 shared>>

Answers(s) ==
  \/ FileSystemAnswers(s) \/ DirectoryAnswers(s) \/ LookupAnswers(s)
  \/ FileAnswers(s) \/ WriterAnswers(s) \/ WriteSucceeds(s) \/ WriteFails(s)
  \/ WriteAborted(s) \/ RequestFails(s)

SaverNext ==
  \/ \E s \in Savers, n \in Names, octet \in BOOLEAN : SaveAs(s, n, octet)
  \/ \E s \in Savers : Answers(s) \/ Abort(s)
  \/ Unload

(* The browser answers every request it was given, one way or the other.   *)
SaverSpec ==
  /\ SaverInit /\ [][SaverNext]_saverVars
  /\ \A s \in Savers : WF_saverVars(Answers(s))

-----------------------------------------------------------------------------
Aborted == {s \in Savers : abortedAt[s] # "no"}
Undisturbed(s) == s \notin Aborted \cup failed

(* A file the user is given holds the blob of its save and of no other, if *)
(* nothing was aborted or failed and no save of the same name overlapped,  *)
(* however often the name was saved before.                                *)
FileIsTheBlob ==
  \A s \in Savers : \A i \in DOMAIN opened[s] :
    Undisturbed(s) /\ s \notin shared => opened[s][i].data = {s}

(* A save that was aborted before it began to write opens nothing and says *)
(* nothing more, unless the file system refuses a request it waited for.   *)
AbortedOpensNothing ==
  \A s \in Aborted \ failed :
    abortedAt[s] # "writing" => opened[s] = <<>> /\ heard[s] = <<"abort">>

(* No object URL outlives the page, and no file of a save that ended       *)
(* undisturbed does, however many saves used its name.                     *)
NothingLeftBehind ==
  closed =>
    /\ urls = {}
    /\ \A n \in Names : dir[n] # NoFile =>
         \E s \in Savers : save[s].name = n /\
           (at[s] = "gone" \/ ~Undisturbed(s) \/ ~HasTargetView(s))

(* What saves promise beside each other: a file shown is the blob of its   *)
(* save, an aborted save opens nothing, and leaving the page leaves        *)
(* nothing behind.                                                         *)
SavesKeepTheirFile ==
  /\ SaverTypeOK
  /\ FileIsTheBlob
  /\ AbortedOpensNothing
  /\ NothingLeftBehind

(* readyState only goes on: nothing that answers late makes a save that is *)
(* DONE write again.                                                       *)
Rank(state) ==
  CASE state = "INIT" -> 0 [] state = "WRITING" -> 1 [] state = "DONE" -> 2

ReadyStateGoesOn ==
  [][\A s \in Savers : Rank(readyState'[s]) >= Rank(readyState[s])]_saverVars

(* Every save whose handler has a view to open its file in gives the user  *)
(* the blob in the end, unless the page aborts the save or is left.        *)
SavesDeliver ==
  \A s \in Savers :
    UnderWay(s) /\ HasTargetView(s) ~>
      opened[s] # <<>> \/ s \in Aborted \/ closed
=============================================================================
