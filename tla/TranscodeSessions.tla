-------------------------- MODULE TranscodeSessions --------------------------
(***************************************************************************)
(* The sessions behind adaptive streaming:                                 *)
(* src/internal/infrastructure/transcoding/session.  A playlist request    *)
(* gets or creates the session of a key (media item, quality, audio        *)
(* track); a session is an FFmpeg process that writes into the directory   *)
(* of its key.  Sessions are stopped by requests for other media, for      *)
(* another quality or another position, and by the periodic cleanup.  Only *)
(* creation is guarded, by one mutex per key; whoever stops a session      *)
(* deletes the entry of its key later, whichever session is there by then. *)
(*                                                                         *)
(* The module follows one media item, whose keys are its qualities; of the *)
(* requests for other media it has what they do to this one.               *)
(***************************************************************************)
EXTENDS Naturals

CONSTANTS Keys,        \* session keys: the qualities of the media item
          Requests,    \* playlist requests
          MaxSessions  \* bound: sessions ever started

ASSUME SessionsAssumption == MaxSessions \in Nat

VARIABLES ses,      \* the sessions: key and FFmpeg process
          created,  \* sessions started so far
          map,      \* Manager.sessions: the session of each key, or 0
          req,      \* the requests
          async,    \* sessions left to the goroutines of stopOtherMediaSessions
          cleaner,  \* the goroutine of StartPeriodicCleanup
          dir,      \* the sessions that have files in the directory of a key
          cleaned,  \* auxiliary: sessions whose directory was removed for them
          hit       \* auxiliary: sessions that lost their entry to a late Delete

vars == <<ses, created, map, req, async, cleaner, dir, cleaned, hit>>

Ids == 1 .. MaxSessions
NoSession == 0
Idle == [pc |-> "idle", key |-> "", ses |-> 0, todo |-> {}]
Asleep == [pc |-> "idle", key |-> "", ses |-> 0]

\* A request in these places holds the mutex of its key.
Creating == {"have", "restart", "create", "store"}

Session == [key : Keys \cup {""}, ff : {"none", "running", "killed", "exited"}]
Request == [pc : {"idle", "quality", "each", "gone", "lock"} \cup Creating,
            key : Keys \cup {""}, ses : 0 .. MaxSessions, todo : SUBSET Keys]
Cleaner == [pc : {"idle", "stop", "remove"}, key : Keys \cup {""}, ses : 0 .. MaxSessions]

(***************************************************************************)
(* Every variable has its type.                                            *)
(***************************************************************************)
TypeOK ==
    /\ ses \in [Ids -> Session] /\ created \in 0 .. MaxSessions
    /\ map \in [Keys -> Ids \cup {NoSession}]
    /\ req \in [Requests -> Request]
    /\ async \subseteq Ids
    /\ cleaner \in Cleaner
    /\ dir \in [Keys -> SUBSET Ids]
    /\ cleaned \subseteq Ids /\ hit \subseteq Ids

Init ==
    /\ ses = [i \in Ids |-> [key |-> "", ff |-> "none"]] /\ created = 0
    /\ map = [k \in Keys |-> NoSession]
    /\ req = [r \in Requests |-> Idle]
    /\ async = {} /\ cleaner = Asleep
    /\ dir = [k \in Keys |-> {}]
    /\ cleaned = {} /\ hit = {}

-----------------------------------------------------------------------------
(***************************************************************************)
(* A session.                                                              *)
(***************************************************************************)

\* Stop begins: context, watchdog and watcher end, and FFmpeg is killed.
Killed(i) == IF ses[i].ff = "running" THEN [ses EXCEPT ![i].ff = "killed"] ELSE ses

\* (mutant: Stop does not wait for the process)
MayReturn(i) == TRUE

\* Stop returns when Wait has, here or in the goroutine that monitors FFmpeg.
Exited(i) == ses[i].ff = "exited"

\* A segment is written: also by a process that was told to end.
Write(i) ==
    /\ ses[i].ff \in {"running", "killed"}
    /\ dir' = [dir EXCEPT ![ses[i].key] = @ \cup {i}]
    /\ UNCHANGED <<ses, created, map, req, async, cleaner, cleaned, hit>>

\* FFmpeg ends by itself: done, failed, or killed by the progress watchdog.
FFmpegEnds(i) ==
    /\ ses[i].ff = "running"
    /\ ses' = [ses EXCEPT ![i].ff = "exited"]
    /\ UNCHANGED <<created, map, req, async, cleaner, dir, cleaned, hit>>

\* A process that Stop has killed ends.
FFmpegDies(i) ==
    /\ ses[i].ff = "killed"
    /\ ses' = [ses EXCEPT ![i].ff = "exited"]
    /\ UNCHANGED <<created, map, req, async, cleaner, dir, cleaned, hit>>

\* sessions.Delete(key) by someone who has stopped session i.
Deleted(k, i) ==
    /\ map' = [map EXCEPT ![k] = NoSession]
    /\ hit' = IF map[k] \in {NoSession, i} THEN hit ELSE hit \cup {map[k]}

-----------------------------------------------------------------------------
(***************************************************************************)
(* GetOrCreateSession, up to the mutex.                                    *)
(***************************************************************************)

Ask(r, k) ==
    /\ req[r].pc = "idle"
    /\ req' = [req EXCEPT ![r] = [Idle EXCEPT !.pc = "quality", !.key = k]]
    /\ UNCHANGED <<ses, created, map, async, cleaner, dir, cleaned, hit>>

\* stopOtherMediaSessions of a request for another media item removes the
\* sessions from the map and leaves it to a goroutine to stop them.
AskOther ==
    /\ map # [k \in Keys |-> NoSession]
    /\ map' = [k \in Keys |-> NoSession]
    /\ async' = async \cup ({map[k] : k \in Keys} \ {NoSession})
    /\ UNCHANGED <<ses, created, req, cleaner, dir, cleaned, hit>>

\* The goroutine stops a session and leaves its files.
StopOther(i) ==
    /\ i \in async /\ async' = async \ {i}
    /\ ses' = Killed(i)
    /\ UNCHANGED <<created, map, req, cleaner, dir, cleaned, hit>>

\* StopOtherQualitySessions collects the keys of the same media whose process
\* has not been waited for ...
ListQualities(r) ==
    /\ req[r].pc = "quality"
    /\ LET k == req[r].key
           keys == {x \in Keys \ {k} : map[x] # NoSession /\ ~Exited(map[x])}
       IN  req' = [req EXCEPT ![r].pc = IF keys = {} THEN "lock" ELSE "each",
                              ![r].todo = keys]
    /\ UNCHANGED <<ses, created, map, async, cleaner, dir, cleaned, hit>>

\* Where a request goes when it is done with the session of key x.
After(r, x) ==
    [req EXCEPT ![r].todo = @ \ {x}, ![r].ses = 0,
                ![r].pc = IF req[r].todo = {x} THEN "lock" ELSE "each"]

\* ... and stops the session it finds under each of them, if there still is one.
StopQuality(r) ==
    /\ req[r].pc = "each"
    /\ \E x \in req[r].todo :
          IF map[x] = NoSession
          THEN req' = After(r, x) /\ UNCHANGED ses
          ELSE /\ req' = [req EXCEPT ![r].pc = "gone", ![r].ses = map[x]]
               /\ ses' = Killed(map[x])
    /\ UNCHANGED <<created, map, async, cleaner, dir, cleaned, hit>>

QualityStopped(r) ==
    /\ req[r].pc = "gone" /\ Exited(req[r].ses)
    /\ LET x == ses[req[r].ses].key
       IN  Deleted(x, req[r].ses) /\ req' = After(r, x)
    /\ UNCHANGED <<ses, created, async, cleaner, dir, cleaned>>

-----------------------------------------------------------------------------
(***************************************************************************)
(* GetOrCreateSession, under the mutex of the key.                         *)
(***************************************************************************)

\* (mutant: creation is not guarded)
Unguarded(k) == TRUE

Free(k) == \A r \in Requests : ~(req[r].pc \in Creating /\ req[r].key = k)

Lock(r) ==
    /\ req[r].pc = "lock" /\ Free(req[r].key)
    /\ req' = [req EXCEPT ![r].pc = IF map[req[r].key] = NoSession THEN "create" ELSE "have",
                          ![r].ses = map[req[r].key]]
    /\ UNCHANGED <<ses, created, map, async, cleaner, dir, cleaned, hit>>

\* The position lies in the window of the session that was found.  Whether it
\* still runs, or is being stopped, is not asked.
Reuse(r) ==
    /\ req[r].pc = "have"
    /\ req' = [req EXCEPT ![r] = Idle]
    /\ UNCHANGED <<ses, created, map, async, cleaner, dir, cleaned, hit>>

\* It does not: that session is stopped ...
Restart(r) ==
    /\ req[r].pc = "have"
    /\ req' = [req EXCEPT ![r].pc = "restart"]
    /\ ses' = Killed(req[r].ses)
    /\ UNCHANGED <<created, map, async, cleaner, dir, cleaned, hit>>

\* ... and deleted with its directory.
Restarted(r) ==
    /\ req[r].pc = "restart" /\ Exited(req[r].ses)
    /\ Deleted(req[r].key, req[r].ses)
    /\ dir' = [dir EXCEPT ![req[r].key] = {}]
    /\ cleaned' = cleaned \cup {req[r].ses}
    /\ req' = [req EXCEPT ![r].pc = "create", ![r].ses = 0]
    /\ UNCHANGED <<ses, created, async, cleaner>>

\* A new session starts FFmpeg ...
Create(r) ==
    /\ req[r].pc = "create" /\ created < MaxSessions
    /\ created' = created + 1
    /\ ses' = [ses EXCEPT ![created + 1] = [key |-> req[r].key, ff |-> "running"]]
    /\ req' = [req EXCEPT ![r].pc = "store", ![r].ses = created + 1]
    /\ UNCHANGED <<map, async, cleaner, dir, cleaned, hit>>

\* (mutant: the mutex is not released when FFmpeg does not start)
StaysLocked(r) == req

\* The request returns and its deferred Unlock runs.
Returned(r) == [req EXCEPT ![r] = Idle]

\* ... or cannot, with the fallback acceleration neither.
CreateFails(r) ==
    /\ req[r].pc = "create"
    /\ req' = Returned(r)
    /\ UNCHANGED <<ses, created, map, async, cleaner, dir, cleaned, hit>>

\* It is stored once it runs.
Put(r) ==
    /\ req[r].pc = "store"
    /\ map' = [map EXCEPT ![req[r].key] = req[r].ses]
    /\ req' = [req EXCEPT ![r] = Idle]
    /\ UNCHANGED <<ses, created, async, cleaner, dir, cleaned, hit>>

-----------------------------------------------------------------------------
(***************************************************************************)
(* The periodic cleanup, one goroutine, without the mutexes.               *)
(***************************************************************************)

\* CleanupIdleSessions finds a session without access for a while and stops it.
CleanIdle(k) ==
    /\ cleaner.pc = "idle" /\ map[k] # NoSession
    /\ cleaner' = [pc |-> "stop", key |-> k, ses |-> map[k]]
    /\ ses' = Killed(map[k])
    /\ UNCHANGED <<created, map, req, async, dir, cleaned, hit>>

CleanStopped ==
    /\ cleaner.pc = "stop" /\ Exited(cleaner.ses)
    /\ cleaner' = [cleaner EXCEPT !.pc = "remove"]
    /\ Deleted(cleaner.key, cleaner.ses)
    /\ UNCHANGED <<ses, created, req, async, dir, cleaned>>

CleanRemove ==
    /\ cleaner.pc = "remove" /\ cleaner' = Asleep
    /\ dir' = [dir EXCEPT ![cleaner.key] = {}]
    /\ cleaned' = cleaned \cup {cleaner.ses}
    /\ UNCHANGED <<ses, created, map, req, async, hit>>

\* CleanupOldTranscodes removes the directory of a media item that had no
\* session when it began to measure directories; it may have one by now.
OldRemove ==
    /\ cleaner.pc = "idle" /\ dir # [k \in Keys |-> {}]
    /\ dir' = [k \in Keys |-> {}]
    /\ UNCHANGED <<ses, created, map, req, async, cleaner, cleaned, hit>>

-----------------------------------------------------------------------------
RequestStep(r) ==
    \/ ListQualities(r) \/ StopQuality(r) \/ QualityStopped(r)
    \/ Lock(r) \/ Reuse(r) \/ Restart(r) \/ Restarted(r)
    \/ Create(r) \/ CreateFails(r) \/ Put(r)

Next ==
    \/ \E i \in Ids : Write(i) \/ FFmpegEnds(i) \/ FFmpegDies(i) \/ StopOther(i)
    \/ \E r \in Requests : RequestStep(r) \/ \E k \in Keys : Ask(r, k)
    \/ \E k \in Keys : CleanIdle(k)
    \/ AskOther \/ OldRemove \/ CleanStopped \/ CleanRemove

(***************************************************************************)
(* Goroutines run on, a mutex goes to every request that waits (a mutex of *)
(* Go starves nobody) and a killed process ends.  FFmpeg may run for ever. *)
(***************************************************************************)
Fairness ==
    /\ \A i \in Ids : WF_vars(FFmpegDies(i)) /\ WF_vars(StopOther(i))
    /\ \A r \in Requests : SF_vars(Lock(r)) /\ WF_vars(RequestStep(r))
    /\ WF_vars(CleanStopped) /\ WF_vars(CleanRemove)

Spec == Init /\ [][Next]_vars /\ Fairness

-----------------------------------------------------------------------------
(***************************************************************************)
(* Properties.                                                             *)
(***************************************************************************)

(***************************************************************************)
(* Stop returns after the process has exited, so that the directory may be *)
(* removed: no file of a session comes back after its cleanup, although    *)
(* several actors may stop one session and FFmpeg writes until it ends.    *)
(***************************************************************************)
CleanedStaysClean == \A i \in cleaned : \A k \in Keys : i \notin dir[k]

(***************************************************************************)
(* No FFmpeg is forgotten: one that runs belongs to a session that is in   *)
(* the map, is about to be stored, or waits to be stopped, unless a late   *)
(* Delete, by key, took its entry away.                                    *)
(***************************************************************************)
RunningIsKnown ==
    \A i \in Ids : ses[i].ff = "running" =>
        \/ map[ses[i].key] = i \/ i \in async \/ i \in hit
        \/ \E r \in Requests : req[r].pc = "store" /\ req[r].ses = i

(***************************************************************************)
(* Every request ends: the waits for the mutex and for other processes to  *)
(* exit do not block one another for ever.                                 *)
(***************************************************************************)
RequestsEnd == \A r \in Requests : (req[r].pc = "quality") ~> (req[r].pc = "idle")
=============================================================================
