----------------------- MODULE TranscodeSessionsProofs -----------------------
(***************************************************************************)
(* Proofs about TranscodeSessions, for any qualities, requests and number  *)
(* of sessions.                                                            *)
(***************************************************************************)
EXTENDS TranscodeSessions, TLAPS

\* A session is born with its key and its process.
SesFit ==
    /\ \A i \in Ids : i > created => ses[i].ff = "none"
    /\ \A i \in Ids : ses[i].ff # "none" => ses[i].key \in Keys

\* The map, the requests and the cleanup refer to sessions of their key.
Of(i, k) == i \in Ids /\ ses[i].ff # "none" /\ ses[i].key = k

MapFit == \A k \in Keys : map[k] # NoSession => Of(map[k], k)

ReqFit ==
    \A r \in Requests :
        /\ req[r].pc # "idle" => req[r].key \in Keys
        /\ req[r].pc = "gone" => req[r].ses \in Ids /\ ses[req[r].ses].ff # "none"
        /\ req[r].pc \in {"have", "restart", "store"} => Of(req[r].ses, req[r].key)

CleanFit ==
    /\ cleaner.pc # "idle" => cleaner.key \in Keys /\ Of(cleaner.ses, cleaner.key)
    /\ cleaner.pc = "remove" => ses[cleaner.ses].ff = "exited"

\* A session writes into the directory of its key, and not once it has exited.
DirFit ==
    /\ \A k \in Keys : \A i \in dir[k] : Of(i, k)
    /\ \A i \in cleaned : ses[i].ff = "exited"

\* One request at a time has the mutex of a key; while it creates a session,
\* the key has none.
MutexFit ==
    /\ \A q, r \in Requests :
          (q # r /\ req[q].pc \in Creating /\ req[r].pc \in Creating) => req[q].key # req[r].key
    /\ \A r \in Requests :
          req[r].pc \in {"create", "store"} => map[req[r].key] = NoSession

Inv == /\ TypeOK /\ SesFit /\ MapFit /\ ReqFit /\ CleanFit /\ DirFit /\ MutexFit
       /\ CleanedStaysClean /\ RunningIsKnown

\* There are no sessions.
LEMMA InvInit == Init => Inv
<1> SUFFICES ASSUME Init PROVE Inv
  OBVIOUS
<1>1. TypeOK
  <2>1. 0 \in 0 .. MaxSessions
    BY SessionsAssumption
  <2>2. Idle \in Request /\ Asleep \in Cleaner /\ [key |-> "", ff |-> "none"] \in Session
    BY <2>1 DEF Idle, Asleep, Request, Cleaner, Session
  <2>3. QED BY <2>1, <2>2 DEF Init, TypeOK
<1>2. SesFit /\ MapFit /\ ReqFit /\ CleanFit /\ DirFit /\ MutexFit
  BY DEF Init, SesFit, MapFit, ReqFit, CleanFit, DirFit, MutexFit, Idle, Asleep, Creating, NoSession
<1>3. CleanedStaysClean /\ RunningIsKnown
  BY DEF Init, CleanedStaysClean, RunningIsKnown
<1>4. QED BY <1>1, <1>2, <1>3 DEF Inv

-----------------------------------------------------------------------------
(***************************************************************************)
(* Processes that end.                                                     *)
(***************************************************************************)

\* No session is made; processes may be killed or exit, and stay so.
SesMoves ==
    /\ ses' \in [Ids -> Session] /\ UNCHANGED created
    /\ \A i \in Ids : /\ ses'[i].key = ses[i].key
                      /\ ses'[i].ff = "none" <=> ses[i].ff = "none"
                      /\ ses[i].ff = "exited" => ses'[i].ff = "exited"
                      /\ ses'[i].ff = "running" => ses[i].ff = "running"

\* A process that goes from one status on to a later one.
LEMMA MovesTo ==
  ASSUME TypeOK, NEW i \in Ids, NEW f \in {"killed", "exited"},
         ses[i].ff \in {"running", "killed"}, UNCHANGED created,
         ses' = [ses EXCEPT ![i].ff = f]
  PROVE SesMoves /\ ses'[i].ff = f
<1>1. ses[i] \in Session
  BY DEF TypeOK
<1>2. [ses[i] EXCEPT !.ff = f] \in Session /\ [ses[i] EXCEPT !.ff = f].key = ses[i].key
      /\ [ses[i] EXCEPT !.ff = f].ff = f
  BY <1>1 DEF Session
<1>3. ses' = [ses EXCEPT ![i] = [ses[i] EXCEPT !.ff = f]]
  BY DEF TypeOK
<1>4. QED BY <1>2, <1>3 DEF TypeOK, SesMoves

\* Killing a process is such a step.
LEMMA KillMoves ==
  ASSUME TypeOK, NEW i \in Ids, ses' = Killed(i), UNCHANGED created
  PROVE SesMoves /\ ses'[i].ff # "running"
<1>1. CASE ses[i].ff = "running"
  BY <1>1, MovesTo DEF Killed
<1>2. CASE ses[i].ff # "running"
  BY <1>2 DEF Killed, SesMoves, TypeOK
<1>3. QED BY <1>1, <1>2

\* It leaves whatever refers to sessions as it is.
LEMMA MovesKeep ==
  ASSUME Inv, SesMoves
  PROVE /\ SesFit'
        /\ \A i \in Ids, k \in Keys : Of(i, k)' = Of(i, k)
        /\ UNCHANGED map => MapFit'
        /\ UNCHANGED cleaner => CleanFit'
        /\ UNCHANGED <<dir, cleaned>> => (DirFit /\ CleanedStaysClean)'
        /\ UNCHANGED req => ReqFit'
        /\ UNCHANGED <<req, map>> => MutexFit'
<1>1. SesFit'
  BY DEF Inv, SesMoves, SesFit
<1>2. \A i \in Ids, k \in Keys : Of(i, k)' = Of(i, k)
  BY DEF SesMoves, Of
<1>3. UNCHANGED map => MapFit'
  BY <1>2 DEF Inv, MapFit, TypeOK
<1>4. UNCHANGED cleaner => CleanFit'
  BY <1>2 DEF Inv, CleanFit, Of, SesMoves
<1>5. UNCHANGED <<dir, cleaned>> => (DirFit /\ CleanedStaysClean)'
  BY <1>2 DEF Inv, DirFit, CleanedStaysClean, SesMoves, TypeOK, Of
<1>6. UNCHANGED req => ReqFit'
  BY <1>2 DEF Inv, ReqFit, SesMoves, Of
<1>7. UNCHANGED <<req, map>> => MutexFit'
  BY DEF Inv, MutexFit
<1>8. QED BY <1>1, <1>2, <1>3, <1>4, <1>5, <1>6, <1>7

\* FFmpeg, and the goroutine of stopOtherMediaSessions, keep the invariant.
LEMMA ProcessStep ==
  ASSUME Inv, NEW i \in Ids,
         Write(i) \/ FFmpegEnds(i) \/ FFmpegDies(i) \/ StopOther(i)
  PROVE Inv'
<1> USE DEF Inv
<1>1. CASE Write(i)
  <2>1. UNCHANGED <<ses, created, map, req, async, cleaner, cleaned, hit>>
    BY <1>1 DEF Write
  <2>2. SesMoves
    BY <2>1 DEF SesMoves, TypeOK
  <2>3. ses[i].key \in Keys /\ i \notin cleaned
    BY <1>1 DEF Write, SesFit, DirFit
  <2>4. dir' = [dir EXCEPT ![ses[i].key] = @ \cup {i}]
    BY <1>1 DEF Write
  <2>5. TypeOK' /\ DirFit' /\ CleanedStaysClean'
    BY <1>1, <2>1, <2>3, <2>4 DEF TypeOK, DirFit, CleanedStaysClean, Of, Write
  <2>6. RunningIsKnown'
    BY <2>1 DEF RunningIsKnown
  <2>7. QED BY <2>1, <2>2, <2>5, <2>6, MovesKeep
<1>2. CASE FFmpegEnds(i) \/ FFmpegDies(i)
  <2>1. UNCHANGED <<created, map, req, async, cleaner, dir, cleaned, hit>>
    BY <1>2 DEF FFmpegEnds, FFmpegDies
  <2>2. SesMoves
    BY <1>2, MovesTo DEF FFmpegEnds, FFmpegDies
  <2>3. TypeOK'
    BY <2>1, <2>2 DEF TypeOK, SesMoves
  <2>4. RunningIsKnown'
    BY <2>1, <2>2 DEF RunningIsKnown, SesMoves
  <2>5. QED BY <2>1, <2>2, <2>3, <2>4, MovesKeep
<1>3. CASE StopOther(i)
  <2>1. UNCHANGED <<created, map, req, cleaner, dir, cleaned, hit>> /\ async' = async \ {i}
    BY <1>3 DEF StopOther
  <2>2. SesMoves /\ ses'[i].ff # "running"
    BY <1>3, KillMoves DEF StopOther
  <2>3. TypeOK'
    BY <2>1, <2>2 DEF TypeOK, SesMoves
  <2>4. RunningIsKnown'
    BY <2>1, <2>2 DEF RunningIsKnown, SesMoves
  <2>5. QED BY <2>1, <2>2, <2>3, <2>4, MovesKeep
<1>4. QED BY <1>1, <1>2, <1>3

-----------------------------------------------------------------------------
(***************************************************************************)
(* Requests.                                                               *)
(***************************************************************************)

\* A request that changes to a state of its type that refers to what it may,
\* and comes to the mutex only if that is free, keeps what holds of requests.
LEMMA RequestMoves ==
  ASSUME Inv, NEW r \in Requests, NEW v \in Request, req' = [req EXCEPT ![r] = v],
         \A i \in Ids, k \in Keys : Of(i, k)' = Of(i, k),
         \A i \in Ids : ses'[i].ff = "none" => ses[i].ff = "none",
         v.pc # "idle" => v.key \in Keys,
         v.pc = "gone" => v.ses \in Ids /\ ses'[v.ses].ff # "none",
         v.pc \in {"have", "restart", "store"} => Of(v.ses, v.key)',
         v.pc \in Creating => v.key = req[r].key /\ (req[r].pc \in Creating \/ Free(v.key))
  PROVE /\ req' \in [Requests -> Request] /\ ReqFit'
        /\ \A p, q \in Requests :
              (p # q /\ req'[p].pc \in Creating /\ req'[q].pc \in Creating)
                  => req'[p].key # req'[q].key
<1>1. req' \in [Requests -> Request]
  BY DEF Inv, TypeOK
<1>2. req'[r] = v /\ \A q \in Requests \ {r} : req'[q] = req[q]
  BY DEF Inv, TypeOK
<1>3. ASSUME NEW q \in Requests
      PROVE /\ req'[q].pc # "idle" => req'[q].key \in Keys
            /\ req'[q].pc = "gone" => req'[q].ses \in Ids /\ ses'[req'[q].ses].ff # "none"
            /\ req'[q].pc \in {"have", "restart", "store"} =>
                 /\ req'[q].ses \in Ids /\ ses'[req'[q].ses].ff # "none"
                 /\ ses'[req'[q].ses].key = req'[q].key
  <2>1. CASE q = r
    BY <1>2, <2>1 DEF Of
  <2>2. CASE q # r
    <3>1. req'[q] = req[q]
      BY <1>2, <2>2
    <3>2. ASSUME req[q].pc \in {"have", "restart", "store"}
          PROVE /\ req[q].ses \in Ids /\ ses'[req[q].ses].ff # "none"
                /\ ses'[req[q].ses].key = req[q].key
      <4>1. req[q].ses \in Ids /\ req[q].key \in Keys /\ Of(req[q].ses, req[q].key)
        BY <3>2 DEF Inv, ReqFit, Of
      <4>2. QED BY <4>1 DEF Of
    <3>3. QED BY <3>1, <3>2 DEF Inv, ReqFit
  <2>3. QED BY <2>1, <2>2
<1>4. ReqFit'
  BY <1>3 DEF ReqFit, Of
<1>5. ASSUME NEW p \in Requests, NEW q \in Requests, p # q,
             req'[p].pc \in Creating, req'[q].pc \in Creating
      PROVE req'[p].key # req'[q].key
  <2>1. CASE p # r /\ q # r
    BY <1>2, <1>5, <2>1 DEF Inv, MutexFit
  <2>2. CASE p = r
    BY <1>2, <1>5, <2>2 DEF Inv, MutexFit, Free
  <2>3. CASE q = r
    BY <1>2, <1>5, <2>3 DEF Inv, MutexFit, Free
  <2>4. QED BY <2>1, <2>2, <2>3
<1>6. QED BY <1>1, <1>4, <1>5

\* What a step of a request that may stop a session has to show.
LEMMA RequestOnly ==
  ASSUME Inv, NEW r \in Requests, NEW v \in Request, req' = [req EXCEPT ![r] = v],
         SesMoves, UNCHANGED <<map, async, cleaner, dir, cleaned, hit>>,
         v.pc # "idle" => v.key \in Keys,
         v.pc = "gone" => v.ses \in Ids /\ ses[v.ses].ff # "none",
         v.pc \in {"have", "restart", "store"} => Of(v.ses, v.key),
         v.pc \in Creating => v.key = req[r].key /\ (req[r].pc \in Creating \/ Free(v.key)),
         v.pc \in {"create", "store"} => map[v.key] = NoSession,
         req[r].pc = "store" => map[req[r].key] = req[r].ses
  PROVE Inv'
<1>2. \A i \in Ids, k \in Keys : Of(i, k)' = Of(i, k)
  BY MovesKeep
<1>3. /\ v.pc \in {"have", "restart", "store"} => Of(v.ses, v.key)'
      /\ v.pc = "gone" => ses'[v.ses].ff # "none"
  BY DEF Of, SesMoves
<1>10. \A i \in Ids : ses'[i].ff = "none" => ses[i].ff = "none"
  BY DEF SesMoves
<1>4. /\ req' \in [Requests -> Request] /\ ReqFit'
      /\ \A p, q \in Requests :
            (p # q /\ req'[p].pc \in Creating /\ req'[q].pc \in Creating)
                => req'[p].key # req'[q].key
  BY <1>2, <1>3, <1>10, RequestMoves
<1>5. TypeOK'
  BY <1>4 DEF Inv, TypeOK, SesMoves
<1>6. req'[r] = v /\ \A q \in Requests \ {r} : req'[q] = req[q]
  BY DEF Inv, TypeOK
<1>7. MutexFit'
  BY <1>4, <1>6 DEF Inv, MutexFit
<1>8. RunningIsKnown'
  <2> SUFFICES ASSUME NEW i \in Ids, ses[i].ff = "running"
               PROVE \/ map[ses[i].key] = i \/ i \in async \/ i \in hit
                     \/ \E q \in Requests : req'[q].pc = "store" /\ req'[q].ses = i
    BY DEF RunningIsKnown, SesMoves
  <2>1. CASE \E q \in Requests : req[q].pc = "store" /\ req[q].ses = i
    <3>1. PICK q \in Requests : req[q].pc = "store" /\ req[q].ses = i
      BY <2>1
    <3>2. CASE q = r
      BY <3>1, <3>2 DEF Inv, ReqFit, Of
    <3>3. CASE q # r
      BY <3>1, <3>3, <1>6
    <3>4. QED BY <3>2, <3>3
  <2>2. CASE ~\E q \in Requests : req[q].pc = "store" /\ req[q].ses = i
    BY <2>2 DEF Inv, RunningIsKnown
  <2>3. QED BY <2>1, <2>2
<1>9. QED BY <1>4, <1>5, <1>7, <1>8, MovesKeep DEF Inv

\* Asking, waiting for the mutex, reusing and stopping keep the invariant.
LEMMA RequestStopsStep ==
  ASSUME Inv, NEW r \in Requests,
         \/ \E k \in Keys : Ask(r, k)
         \/ ListQualities(r) \/ StopQuality(r) \/ Lock(r) \/ Reuse(r) \/ Restart(r) \/ CreateFails(r)
  PROVE Inv'
<1>0. /\ req[r] \in Request /\ req \in [Requests -> Request]
      /\ map \in [Keys -> Ids \cup {NoSession}] /\ ses \in [Ids -> Session]
      /\ 0 \in 0 .. MaxSessions /\ Ids \subseteq 0 .. MaxSessions /\ 0 \notin Ids
      /\ Ids \cup {NoSession} \subseteq 0 .. MaxSessions
  BY SessionsAssumption DEF Inv, TypeOK, Ids, NoSession
<1>1. ASSUME UNCHANGED <<ses, created>> PROVE SesMoves
  BY <1>0, <1>1 DEF SesMoves
<1>2. ASSUME NEW k \in Keys, Ask(r, k) PROVE Inv'
  <2> DEFINE v == [Idle EXCEPT !.pc = "quality", !.key = k]
  <2>1. v \in Request /\ v.pc = "quality" /\ v.key = k
    BY <1>0 DEF Request, Idle
  <2>2. /\ req' = [req EXCEPT ![r] = v] /\ req[r].pc = "idle" /\ UNCHANGED <<ses, created>>
        /\ UNCHANGED <<map, async, cleaner, dir, cleaned, hit>>
    BY <1>2 DEF Ask
  <2> HIDE DEF v
  <2>3. QED BY <1>1, <2>1, <2>2, RequestOnly DEF Creating
<1>3. CASE ListQualities(r)
  <2> DEFINE keys == {x \in Keys \ {req[r].key} : map[x] # NoSession /\ ~Exited(map[x])}
             v == [req[r] EXCEPT !.pc = IF keys = {} THEN "lock" ELSE "each", !.todo = keys]
  <2>1. /\ req' = [req EXCEPT ![r] = v] /\ req[r].pc = "quality" /\ UNCHANGED <<ses, created>>
        /\ UNCHANGED <<map, async, cleaner, dir, cleaned, hit>>
    BY <1>0, <1>3 DEF ListQualities
  <2>2. keys \in SUBSET Keys
    OBVIOUS
  <2> HIDE DEF keys
  <2>3. v \in Request /\ v.pc \in {"lock", "each"} /\ v.key = req[r].key
    BY <1>0, <2>2 DEF Request
  <2>4. v.key \in Keys
    BY <2>1, <2>3 DEF Inv, ReqFit
  <2> HIDE DEF v
  <2>5. QED BY <1>1, <2>1, <2>3, <2>4, RequestOnly DEF Creating
<1>4. CASE StopQuality(r)
  <2>1. PICK x \in req[r].todo :
           IF map[x] = NoSession
           THEN req' = After(r, x) /\ UNCHANGED ses
           ELSE /\ req' = [req EXCEPT ![r].pc = "gone", ![r].ses = map[x]]
                /\ ses' = Killed(map[x])
    BY <1>4 DEF StopQuality
  <2>2. /\ req[r].pc = "each" /\ UNCHANGED <<created, map, async, cleaner, dir, cleaned, hit>>
        /\ req[r].key \in Keys /\ x \in Keys
    BY <1>0, <1>4 DEF StopQuality, Inv, ReqFit, Request
  <2>3. CASE map[x] = NoSession
    <3> DEFINE todo == req[r].todo \ {x}
               pc == IF req[r].todo = {x} THEN "lock" ELSE "each"
               v == [req[r] EXCEPT !.todo = todo, !.ses = 0, !.pc = pc]
    <3>1. req' = [req EXCEPT ![r] = v] /\ UNCHANGED ses
      BY <1>0, <2>1, <2>3 DEF After
    <3>2. todo \in SUBSET Keys /\ pc \in {"lock", "each"}
      BY <1>0 DEF Request
    <3> HIDE DEF todo, pc
    <3>3. v \in Request /\ v.pc \in {"lock", "each"} /\ v.key = req[r].key
      BY <1>0, <3>2 DEF Request
    <3> HIDE DEF v
    <3>4. QED BY <1>1, <2>2, <3>1, <3>3, RequestOnly DEF Creating
  <2>4. CASE map[x] # NoSession
    <3> DEFINE v == [req[r] EXCEPT !.pc = "gone", !.ses = map[x]]
    <3>1. req' = [req EXCEPT ![r] = v] /\ ses' = Killed(map[x])
      BY <1>0, <2>1, <2>4
    <3>2. map[x] \in Ids /\ map[x] \in 0 .. MaxSessions /\ ses[map[x]].ff # "none"
      BY <1>0, <2>2, <2>4 DEF Inv, MapFit, Of
    <3>3. v \in Request /\ v.pc = "gone" /\ v.key = req[r].key /\ v.ses = map[x]
      BY <1>0, <3>2 DEF Request
    <3> HIDE DEF v
    <3>4. SesMoves
      BY <2>2, <3>1, <3>2, KillMoves DEF Inv
    <3>5. QED BY <2>2, <3>1, <3>2, <3>3, <3>4, RequestOnly DEF Creating
  <2>5. QED BY <2>3, <2>4
<1>5. CASE Lock(r)
  <2> DEFINE k == req[r].key
             v == [req[r] EXCEPT !.pc = IF map[k] = NoSession THEN "create" ELSE "have",
                                 !.ses = map[k]]
  <2>1. /\ req' = [req EXCEPT ![r] = v] /\ req[r].pc = "lock" /\ Free(k)
        /\ UNCHANGED <<ses, created>> /\ UNCHANGED <<map, async, cleaner, dir, cleaned, hit>>
    BY <1>0, <1>5 DEF Lock
  <2>2. k \in Keys
    BY <2>1 DEF Inv, ReqFit
  <2>3. map[k] \in 0 .. MaxSessions /\ (map[k] # NoSession => Of(map[k], k))
    BY <1>0, <2>2 DEF Inv, MapFit
  <2>4. /\ v \in Request /\ v.key = k /\ v.ses = map[k]
        /\ v.pc = IF map[k] = NoSession THEN "create" ELSE "have"
    BY <1>0, <2>3 DEF Request, Creating
  <2> HIDE DEF v
  <2>5. QED BY <1>1, <2>1, <2>2, <2>3, <2>4, RequestOnly
<1>6. CASE Reuse(r) \/ CreateFails(r)
  <2>1. /\ req' = [req EXCEPT ![r] = Idle] /\ req[r].pc \in {"have", "create"}
        /\ UNCHANGED <<ses, created>> /\ UNCHANGED <<map, async, cleaner, dir, cleaned, hit>>
    BY <1>6 DEF Reuse, CreateFails, Returned
  <2>2. Idle \in Request /\ Idle.pc = "idle"
    BY <1>0 DEF Idle, Request
  <2>3. QED BY <1>1, <2>1, <2>2, RequestOnly DEF Creating
<1>7. CASE Restart(r)
  <2> DEFINE v == [req[r] EXCEPT !.pc = "restart"]
  <2>1. /\ req' = [req EXCEPT ![r] = v] /\ req[r].pc = "have" /\ ses' = Killed(req[r].ses)
        /\ UNCHANGED created /\ UNCHANGED <<map, async, cleaner, dir, cleaned, hit>>
    BY <1>0, <1>7 DEF Restart
  <2>2. v \in Request /\ v.pc = "restart" /\ v.key = req[r].key /\ v.ses = req[r].ses
    BY <1>0 DEF Request, Creating
  <2> HIDE DEF v
  <2>3. Of(req[r].ses, req[r].key) /\ req[r].key \in Keys
    BY <2>1 DEF Inv, ReqFit
  <2>4. SesMoves
    BY <2>1, <2>3, KillMoves DEF Inv, Of
  <2>5. QED BY <2>1, <2>2, <2>3, <2>4, RequestOnly DEF Creating
<1>8. QED BY <1>2, <1>3, <1>4, <1>5, <1>6, <1>7

-----------------------------------------------------------------------------
(***************************************************************************)
(* Deletion by key.                                                        *)
(***************************************************************************)

\* Whoever deletes an entry has seen the process of its session exit; a session
\* that runs and loses its entry to that is in hit.
LEMMA DeletedKeeps ==
  ASSUME Inv, NEW k \in Keys, NEW i \in Ids, Exited(i), Deleted(k, i), UNCHANGED <<ses, created>>
  PROVE /\ map' \in [Keys -> Ids \cup {NoSession}] /\ hit' \subseteq Ids /\ hit \subseteq hit'
        /\ MapFit' /\ map'[k] = NoSession
        /\ \A x \in Keys : map[x] = NoSession => map'[x] = NoSession
        /\ \A j \in Ids : (ses[j].ff = "running" /\ map[ses[j].key] = j)
                            => map'[ses[j].key] = j \/ j \in hit'
<1> USE DEF Inv
<1>1. map \in [Keys -> Ids \cup {NoSession}] /\ hit \subseteq Ids
  BY DEF TypeOK
<1>2. map' = [map EXCEPT ![k] = NoSession]
      /\ hit' = IF map[k] \in {NoSession, i} THEN hit ELSE hit \cup {map[k]}
  BY DEF Deleted
<1>3. map' \in [Keys -> Ids \cup {NoSession}] /\ hit' \subseteq Ids /\ hit \subseteq hit'
  BY <1>1, <1>2
<1>4. map'[k] = NoSession /\ \A x \in Keys : map'[x] \in {map[x], NoSession}
  BY <1>1, <1>2
<1>5. MapFit'
  BY <1>4 DEF MapFit, Of
<1>6. ASSUME NEW j \in Ids, ses[j].ff = "running", map[ses[j].key] = j
      PROVE map'[ses[j].key] = j \/ j \in hit'
  <2>1. ses[j].key \in Keys /\ j # i
    BY <1>6 DEF SesFit, Exited
  <2>2. CASE ses[j].key = k
    <3>1. map[k] = j /\ j # NoSession
      BY <1>6, <2>2, SessionsAssumption DEF Ids, NoSession
    <3>2. QED BY <1>2, <2>1, <3>1
  <2>3. CASE ses[j].key # k
    BY <1>1, <1>2, <1>6, <2>1, <2>3
  <2>4. QED BY <2>2, <2>3
<1>7. QED BY <1>3, <1>4, <1>5, <1>6

\* Where sessions stay known: stores are not undone, entries only by Deleted.
LEMMA KnownKept ==
  ASSUME Inv, UNCHANGED <<ses, async>>, hit \subseteq hit',
         \A j \in Ids : (ses[j].ff = "running" /\ map[ses[j].key] = j)
                            => map'[ses[j].key] = j \/ j \in hit',
         \A q \in Requests : req[q].pc = "store" => req'[q] = req[q]
  PROVE RunningIsKnown'
<1> SUFFICES ASSUME NEW i \in Ids, ses[i].ff = "running"
             PROVE \/ map'[ses[i].key] = i \/ i \in async \/ i \in hit'
                   \/ \E q \in Requests : req'[q].pc = "store" /\ req'[q].ses = i
  BY DEF RunningIsKnown
<1>1. \/ map[ses[i].key] = i \/ i \in async \/ i \in hit
      \/ \E q \in Requests : req[q].pc = "store" /\ req[q].ses = i
  BY DEF Inv, RunningIsKnown
<1>2. CASE \E q \in Requests : req[q].pc = "store" /\ req[q].ses = i
  BY <1>2
<1>3. CASE ~\E q \in Requests : req[q].pc = "store" /\ req[q].ses = i
  BY <1>1, <1>3
<1>4. QED BY <1>2, <1>3

\* The directories and what was cleaned, after one of them is removed for a
\* session that has exited.
LEMMA CleanKept ==
  ASSUME Inv, UNCHANGED <<ses, created>>, NEW k \in Keys, NEW i \in Ids, Of(i, k),
         ses[i].ff = "exited", dir' = [dir EXCEPT ![k] = {}], cleaned' = cleaned \cup {i}
  PROVE /\ dir' \in [Keys -> SUBSET Ids] /\ cleaned' \subseteq Ids
        /\ DirFit' /\ CleanedStaysClean'
<1> USE DEF Inv
<1>1. dir' \in [Keys -> SUBSET Ids] /\ cleaned' \subseteq Ids /\ dir'[k] = {}
      /\ \A x \in Keys : dir'[x] \subseteq dir[x]
  BY DEF TypeOK
<1>2. DirFit'
  BY <1>1 DEF DirFit, Of
<1>3. \A x \in Keys : i \notin dir'[x]
  BY <1>1 DEF DirFit, Of
<1>4. CleanedStaysClean'
  BY <1>1, <1>3 DEF CleanedStaysClean
<1>5. QED BY <1>1, <1>2, <1>4

\* Requests that delete, after other sessions of the media or their own.
LEMMA RequestDeletesStep ==
  ASSUME Inv, NEW r \in Requests, QualityStopped(r) \/ Restarted(r)
  PROVE Inv'
<1> USE DEF Inv
<1>0. /\ req[r] \in Request /\ req \in [Requests -> Request]
      /\ 0 \in 0 .. MaxSessions /\ ses \in [Ids -> Session] /\ req[r].key \in Keys
      /\ req[r].ses \in Ids /\ ses[req[r].ses].key \in Keys
  BY SessionsAssumption DEF TypeOK, QualityStopped, Restarted, ReqFit, SesFit, Of
<1>1. UNCHANGED <<ses, created, async, cleaner>> /\ SesMoves
  BY <1>0 DEF QualityStopped, Restarted, SesMoves
<1>2. \A i \in Ids, k \in Keys : Of(i, k)' = Of(i, k)
  BY <1>1 DEF Of
<1>3. CASE QualityStopped(r)
  <2> DEFINE x == ses[req[r].ses].key
             todo == req[r].todo \ {x}
             pc == IF req[r].todo = {x} THEN "lock" ELSE "each"
             v == [req[r] EXCEPT !.todo = todo, !.ses = 0, !.pc = pc]
  <2>1. /\ req[r].pc = "gone" /\ Exited(req[r].ses) /\ Deleted(x, req[r].ses)
        /\ req' = [req EXCEPT ![r] = v] /\ UNCHANGED <<dir, cleaned>>
    BY <1>0, <1>3 DEF QualityStopped, After
  <2>2. todo \in SUBSET Keys /\ pc \in {"lock", "each"}
    BY <1>0 DEF Request
  <2> HIDE DEF todo, pc
  <2>3. v \in Request /\ v.pc \in {"lock", "each"} /\ v.key = req[r].key
    BY <1>0, <2>2 DEF Request
  <2> HIDE DEF v
  <2>4. /\ map' \in [Keys -> Ids \cup {NoSession}] /\ hit' \subseteq Ids /\ hit \subseteq hit'
        /\ MapFit' /\ \A y \in Keys : map[y] = NoSession => map'[y] = NoSession
        /\ \A j \in Ids : (ses[j].ff = "running" /\ map[ses[j].key] = j)
                            => map'[ses[j].key] = j \/ j \in hit'
    BY <1>0, <1>1, <2>1, DeletedKeeps
  <2>5. /\ req' \in [Requests -> Request] /\ ReqFit'
        /\ \A p, q \in Requests :
              (p # q /\ req'[p].pc \in Creating /\ req'[q].pc \in Creating)
                  => req'[p].key # req'[q].key
    BY <1>0, <1>1, <1>2, <2>1, <2>3, RequestMoves DEF Creating
  <2>6. req'[r] = v /\ \A q \in Requests \ {r} : req'[q] = req[q]
    BY <1>0, <2>1
  <2>7. MutexFit'
    BY <2>3, <2>4, <2>5, <2>6 DEF MutexFit, ReqFit
  <2>8. RunningIsKnown'
    BY <1>1, <2>1, <2>4, <2>6, KnownKept
  <2>9. TypeOK'
    BY <1>1, <2>1, <2>4, <2>5 DEF TypeOK
  <2>10. QED BY <1>1, <2>1, <2>4, <2>5, <2>7, <2>8, <2>9, MovesKeep
<1>4. CASE Restarted(r)
  <2> DEFINE v == [req[r] EXCEPT !.pc = "create", !.ses = 0]
             k == req[r].key
  <2>1. /\ req[r].pc = "restart" /\ Exited(req[r].ses) /\ Deleted(k, req[r].ses)
        /\ dir' = [dir EXCEPT ![k] = {}] /\ cleaned' = cleaned \cup {req[r].ses}
        /\ req' = [req EXCEPT ![r] = v]
    BY <1>0, <1>4 DEF Restarted
  <2>2. v \in Request /\ v.pc = "create" /\ v.key = k
    BY <1>0 DEF Request, Creating
  <2> HIDE DEF v
  <2>3. /\ map' \in [Keys -> Ids \cup {NoSession}] /\ hit' \subseteq Ids /\ hit \subseteq hit'
        /\ MapFit' /\ map'[k] = NoSession
        /\ \A y \in Keys : map[y] = NoSession => map'[y] = NoSession
        /\ \A j \in Ids : (ses[j].ff = "running" /\ map[ses[j].key] = j)
                            => map'[ses[j].key] = j \/ j \in hit'
    BY <1>0, <1>1, <2>1, DeletedKeeps
  <2>4. Of(req[r].ses, k) /\ ses[req[r].ses].ff = "exited"
    BY <2>1 DEF ReqFit, Exited
  <2>5. /\ dir' \in [Keys -> SUBSET Ids] /\ cleaned' \subseteq Ids
        /\ DirFit' /\ CleanedStaysClean'
    BY <1>0, <1>1, <2>1, <2>4, CleanKept
  <2>6. /\ req' \in [Requests -> Request] /\ ReqFit'
        /\ \A p, q \in Requests :
              (p # q /\ req'[p].pc \in Creating /\ req'[q].pc \in Creating)
                  => req'[p].key # req'[q].key
    BY <1>0, <1>1, <1>2, <2>1, <2>2, RequestMoves DEF Creating
  <2>7. req'[r] = v /\ \A q \in Requests \ {r} : req'[q] = req[q]
    BY <1>0, <2>1
  <2>8. MutexFit'
    BY <2>2, <2>3, <2>6, <2>7 DEF MutexFit, ReqFit
  <2>9. RunningIsKnown'
    BY <1>1, <2>1, <2>3, <2>7, KnownKept
  <2>10. TypeOK'
    BY <1>1, <2>3, <2>5, <2>6 DEF TypeOK
  <2>11. QED BY <1>1, <2>3, <2>5, <2>6, <2>8, <2>9, <2>10, MovesKeep
<1>5. QED BY <1>3, <1>4

-----------------------------------------------------------------------------
(***************************************************************************)
(* Creation and storage.                                                   *)
(***************************************************************************)

\* A new session is nobody's yet but its request's.
LEMMA CreateStep == ASSUME Inv, NEW r \in Requests, Create(r) PROVE Inv'
<1> USE DEF Inv
<1> DEFINE n == created + 1
           k == req[r].key
           v == [req[r] EXCEPT !.pc = "store", !.ses = n]
<1>0. /\ req[r] \in Request /\ req \in [Requests -> Request] /\ ses \in [Ids -> Session]
      /\ k \in Keys /\ map[k] = NoSession /\ map \in [Keys -> Ids \cup {NoSession}]
  BY DEF TypeOK, Create, ReqFit, MutexFit
<1>1. /\ n \in Ids /\ n \in 0 .. MaxSessions /\ n > created /\ created \in Nat
      /\ \A i \in Ids : i > n => i > created
  BY SessionsAssumption DEF Create, TypeOK, Ids
<1>2. /\ req[r].pc = "create" /\ created' = n /\ req' = [req EXCEPT ![r] = v]
      /\ ses' = [ses EXCEPT ![n] = [key |-> k, ff |-> "running"]]
      /\ UNCHANGED <<map, async, cleaner, dir, cleaned, hit>>
  BY <1>0 DEF Create
<1>3. v \in Request /\ v.pc = "store" /\ v.ses = n /\ v.key = k
  BY <1>0, <1>1 DEF Request, Creating
<1> HIDE DEF v, n
<1>4. /\ ses' \in [Ids -> Session] /\ ses'[n].key = k /\ ses'[n].ff = "running"
      /\ ses[n].ff = "none" /\ \A i \in Ids \ {n} : ses'[i] = ses[i]
  BY <1>0, <1>1, <1>2 DEF Session, SesFit
<1>5. SesFit'
  BY <1>0, <1>1, <1>2, <1>4 DEF SesFit
<1>6. \A i \in Ids, x \in Keys : Of(i, x) => Of(i, x)'
  BY <1>4 DEF Of
<1>7. MapFit' /\ CleanFit' /\ DirFit' /\ CleanedStaysClean'
  <2>1. MapFit'
    BY <1>0, <1>2, <1>6 DEF MapFit, Of
  <2>2. CleanFit'
    BY <1>2, <1>4, <1>6 DEF CleanFit, Of
  <2>3. DirFit' /\ CleanedStaysClean'
    BY <1>2, <1>4, <1>6 DEF DirFit, CleanedStaysClean, Of, TypeOK
  <2>4. QED BY <2>1, <2>2, <2>3
<1>8. req'[r] = v /\ \A q \in Requests \ {r} : req'[q] = req[q]
  BY <1>0, <1>2
<1>9. req' \in [Requests -> Request]
  BY <1>0, <1>2, <1>3
<1>10. ASSUME NEW q \in Requests
       PROVE /\ req'[q].pc # "idle" => req'[q].key \in Keys
             /\ req'[q].pc = "gone" => req'[q].ses \in Ids /\ ses'[req'[q].ses].ff # "none"
             /\ req'[q].pc \in {"have", "restart", "store"} =>
                  /\ req'[q].ses \in Ids /\ ses'[req'[q].ses].ff # "none"
                  /\ ses'[req'[q].ses].key = req'[q].key
  <2>1. CASE q = r
    BY <1>0, <1>1, <1>3, <1>4, <1>8, <2>1
  <2>2. CASE q # r
    <3>1. req'[q] = req[q]
      BY <1>8, <2>2
    <3>2. /\ req[q].pc # "idle" => req[q].key \in Keys
          /\ req[q].pc = "gone" => req[q].ses \in Ids /\ ses[req[q].ses].ff # "none"
          /\ req[q].pc \in {"have", "restart", "store"} =>
               /\ req[q].ses \in Ids /\ ses[req[q].ses].ff # "none"
               /\ ses[req[q].ses].key = req[q].key
      BY DEF ReqFit, Of
    <3>3. QED BY <1>4, <3>1, <3>2
  <2>3. QED BY <2>1, <2>2
<1>11. ReqFit'
  BY <1>10 DEF ReqFit, Of
<1>12. MutexFit'
  BY <1>0, <1>2, <1>3, <1>8 DEF MutexFit, Creating
<1>13. RunningIsKnown'
  <2> SUFFICES ASSUME NEW i \in Ids, ses'[i].ff = "running"
               PROVE \/ map[ses'[i].key] = i \/ i \in async \/ i \in hit
                     \/ \E q \in Requests : req'[q].pc = "store" /\ req'[q].ses = i
    BY <1>2 DEF RunningIsKnown
  <2>1. CASE i = n
    BY <1>3, <1>8, <2>1
  <2>2. CASE i # n
    <3>1. ses'[i] = ses[i]
      BY <1>4, <2>2
    <3>2. \A q \in Requests : req[q].pc = "store" => req'[q] = req[q]
      BY <1>2, <1>8
    <3>3. \/ map[ses[i].key] = i \/ i \in async \/ i \in hit
          \/ \E q \in Requests : req[q].pc = "store" /\ req[q].ses = i
      BY <3>1 DEF RunningIsKnown
    <3>4. CASE \E q \in Requests : req[q].pc = "store" /\ req[q].ses = i
      BY <3>2, <3>4
    <3>5. CASE ~\E q \in Requests : req[q].pc = "store" /\ req[q].ses = i
      BY <3>1, <3>3, <3>5
    <3>6. QED BY <3>4, <3>5
  <2>3. QED BY <2>1, <2>2
<1>14. TypeOK'
  BY <1>1, <1>2, <1>4, <1>9 DEF TypeOK
<1>15. QED BY <1>5, <1>7, <1>11, <1>12, <1>13, <1>14

\* A session comes into a free place of the map: the mutex has kept it free.
LEMMA PutStep == ASSUME Inv, NEW r \in Requests, Put(r) PROVE Inv'
<1> USE DEF Inv
<1> DEFINE k == req[r].key
           n == req[r].ses
<1>0. /\ req \in [Requests -> Request] /\ map \in [Keys -> Ids \cup {NoSession}]
      /\ k \in Keys /\ map[k] = NoSession /\ Of(n, k) /\ 0 \in 0 .. MaxSessions /\ 0 \notin Ids
  BY SessionsAssumption DEF TypeOK, Put, ReqFit, MutexFit, Ids
<1>1. /\ req[r].pc = "store" /\ map' = [map EXCEPT ![k] = n] /\ req' = [req EXCEPT ![r] = Idle]
      /\ UNCHANGED <<ses, created, async, cleaner, dir, cleaned, hit>>
  BY DEF Put
<1>2. Idle \in Request /\ Idle.pc = "idle"
  BY <1>0 DEF Idle, Request
<1>3. SesMoves
  BY <1>1 DEF SesMoves, TypeOK
<1>4. \A i \in Ids, x \in Keys : Of(i, x)' = Of(i, x)
  BY <1>1 DEF Of
<1>5. /\ req' \in [Requests -> Request] /\ ReqFit'
      /\ \A p, q \in Requests :
            (p # q /\ req'[p].pc \in Creating /\ req'[q].pc \in Creating)
                => req'[p].key # req'[q].key
  BY <1>1, <1>2, <1>4, RequestMoves DEF Creating
<1>6. req'[r] = Idle /\ \A q \in Requests \ {r} : req'[q] = req[q]
  BY <1>0, <1>1
<1>7. map' \in [Keys -> Ids \cup {NoSession}] /\ map'[k] = n /\ \A x \in Keys \ {k} : map'[x] = map[x]
  BY <1>0, <1>1 DEF Of
<1>8. MapFit'
  BY <1>0, <1>1, <1>7 DEF MapFit, Of
<1>9. MutexFit'
  <2>1. ASSUME NEW q \in Requests, req'[q].pc \in {"create", "store"}
        PROVE map'[req'[q].key] = NoSession
    <3>1. q # r /\ req'[q] = req[q]
      BY <1>2, <1>6, <2>1
    <3>2. req[q].key # k /\ req[q].key \in Keys /\ map[req[q].key] = NoSession
      BY <1>1, <2>1, <3>1 DEF MutexFit, Creating, ReqFit
    <3>3. QED BY <1>7, <3>1, <3>2
  <2>2. QED BY <1>5, <2>1 DEF MutexFit
<1>10. RunningIsKnown'
  <2> SUFFICES ASSUME NEW i \in Ids, ses[i].ff = "running"
               PROVE \/ map'[ses[i].key] = i \/ i \in async \/ i \in hit
                     \/ \E q \in Requests : req'[q].pc = "store" /\ req'[q].ses = i
    BY <1>1 DEF RunningIsKnown
  <2>1. CASE i = n
    BY <1>0, <1>7, <2>1 DEF Of
  <2>2. CASE i # n
    <3>1. \/ map[ses[i].key] = i \/ i \in async \/ i \in hit
          \/ \E q \in Requests : req[q].pc = "store" /\ req[q].ses = i
      BY DEF RunningIsKnown
    <3>2. CASE map[ses[i].key] = i
      <4>1. ses[i].key # k /\ ses[i].key \in Keys
        BY <1>0, <3>2 DEF SesFit, NoSession
      <4>2. QED BY <1>7, <3>2, <4>1
    <3>3. CASE \E q \in Requests : req[q].pc = "store" /\ req[q].ses = i
      BY <1>6, <2>2, <3>3
    <3>4. QED BY <3>1, <3>2, <3>3
  <2>3. QED BY <2>1, <2>2
<1>11. TypeOK'
  BY <1>1, <1>5, <1>7 DEF TypeOK
<1>12. QED BY <1>1, <1>3, <1>5, <1>8, <1>9, <1>10, <1>11, MovesKeep

-----------------------------------------------------------------------------
(***************************************************************************)
(* Other media and the cleanup.                                            *)
(***************************************************************************)

\* Sessions that leave the map for another media item are left to a goroutine.
LEMMA AskOtherStep == ASSUME Inv, AskOther PROVE Inv'
<1> USE DEF Inv
<1>1. /\ map' = [k \in Keys |-> NoSession]
      /\ async' = async \cup ({map[k] : k \in Keys} \ {NoSession})
      /\ UNCHANGED <<ses, created, req, cleaner, dir, cleaned, hit>>
  BY DEF AskOther
<1>2. SesMoves
  BY <1>1 DEF SesMoves, TypeOK
<1>3. TypeOK'
  BY <1>1 DEF TypeOK
<1>4. MapFit' /\ MutexFit'
  BY <1>1 DEF MapFit, MutexFit, ReqFit
<1>5. RunningIsKnown'
  <2> SUFFICES ASSUME NEW i \in Ids, ses[i].ff = "running"
               PROVE \/ i \in async' \/ i \in hit
                     \/ \E q \in Requests : req[q].pc = "store" /\ req[q].ses = i
    BY <1>1 DEF RunningIsKnown
  <2>1. ses[i].key \in Keys /\ i # NoSession
    BY SessionsAssumption DEF SesFit, NoSession, Ids
  <2>2. map[ses[i].key] = i => i \in async'
    BY <1>1, <2>1
  <2>3. QED BY <1>1, <2>2 DEF RunningIsKnown
<1>6. QED BY <1>1, <1>2, <1>3, <1>4, <1>5, MovesKeep

\* The periodic cleanup.
LEMMA CleanerStep ==
  ASSUME Inv, (\E k \in Keys : CleanIdle(k)) \/ CleanStopped \/ CleanRemove \/ OldRemove
  PROVE Inv'
<1> USE DEF Inv
<1>0. /\ cleaner \in Cleaner /\ map \in [Keys -> Ids \cup {NoSession}] /\ ses \in [Ids -> Session]
      /\ 0 \in 0 .. MaxSessions /\ Ids \subseteq 0 .. MaxSessions
  BY SessionsAssumption DEF TypeOK, Ids
<1>1. ASSUME NEW k \in Keys, CleanIdle(k) PROVE Inv'
  <2>1. /\ map[k] # NoSession /\ cleaner' = [pc |-> "stop", key |-> k, ses |-> map[k]]
        /\ ses' = Killed(map[k]) /\ UNCHANGED <<created, map, req, async, dir, cleaned, hit>>
    BY <1>1 DEF CleanIdle
  <2>2. map[k] \in Ids /\ Of(map[k], k)
    BY <1>0, <2>1 DEF MapFit
  <2>3. SesMoves
    BY <2>1, <2>2, KillMoves
  <2>4. cleaner' \in Cleaner
    BY <1>0, <2>1, <2>2 DEF Cleaner
  <2>5. CleanFit'
    BY <2>1, <2>2, <2>3, MovesKeep DEF CleanFit, Of
  <2>6. TypeOK'
    BY <2>1, <2>3, <2>4 DEF TypeOK, SesMoves
  <2>7. RunningIsKnown'
    BY <2>1, <2>3 DEF RunningIsKnown, SesMoves
  <2>8. QED BY <2>1, <2>3, <2>5, <2>6, <2>7, MovesKeep
<1>2. CASE CleanStopped
  <2> DEFINE k == cleaner.key
             i == cleaner.ses
  <2>1. /\ cleaner.pc = "stop" /\ Exited(i) /\ cleaner' = [cleaner EXCEPT !.pc = "remove"]
        /\ Deleted(k, i) /\ UNCHANGED <<ses, created, req, async, dir, cleaned>>
    BY <1>2 DEF CleanStopped
  <2>2. k \in Keys /\ Of(i, k) /\ i \in Ids
    BY <2>1 DEF CleanFit, Of
  <2>3. SesMoves
    BY <2>1, <1>0 DEF SesMoves
  <2>4. /\ map' \in [Keys -> Ids \cup {NoSession}] /\ hit' \subseteq Ids /\ hit \subseteq hit'
        /\ MapFit' /\ \A y \in Keys : map[y] = NoSession => map'[y] = NoSession
        /\ \A j \in Ids : (ses[j].ff = "running" /\ map[ses[j].key] = j)
                            => map'[ses[j].key] = j \/ j \in hit'
    BY <2>1, <2>2, DeletedKeeps
  <2>5. cleaner' \in Cleaner /\ cleaner'.key = k /\ cleaner'.ses = i
    BY <1>0, <2>1 DEF Cleaner
  <2>6. CleanFit'
    BY <2>1, <2>2, <2>5 DEF CleanFit, Of, Exited
  <2>7. MutexFit'
    BY <2>1, <2>4 DEF MutexFit, ReqFit
  <2>8. RunningIsKnown'
    BY <2>1, <2>4, KnownKept
  <2>9. TypeOK'
    BY <2>1, <2>4, <2>5 DEF TypeOK
  <2>10. QED BY <2>1, <2>3, <2>4, <2>6, <2>7, <2>8, <2>9, MovesKeep
<1>3. CASE CleanRemove
  <2> DEFINE k == cleaner.key
             i == cleaner.ses
  <2>1. /\ cleaner.pc = "remove" /\ cleaner' = Asleep /\ dir' = [dir EXCEPT ![k] = {}]
        /\ cleaned' = cleaned \cup {i} /\ UNCHANGED <<ses, created, map, req, async, hit>>
    BY <1>3 DEF CleanRemove
  <2>2. k \in Keys /\ Of(i, k) /\ i \in Ids /\ ses[i].ff = "exited"
    BY <2>1 DEF CleanFit, Of
  <2>3. SesMoves
    BY <2>1, <1>0 DEF SesMoves
  <2>4. /\ dir' \in [Keys -> SUBSET Ids] /\ cleaned' \subseteq Ids
        /\ DirFit' /\ CleanedStaysClean'
    BY <2>1, <2>2, CleanKept
  <2>5. cleaner' \in Cleaner /\ cleaner'.pc = "idle"
    BY <1>0, <2>1 DEF Cleaner, Asleep
  <2>6. CleanFit'
    BY <2>5 DEF CleanFit
  <2>7. RunningIsKnown' /\ TypeOK'
    BY <2>1, <2>4, <2>5 DEF RunningIsKnown, TypeOK
  <2>8. QED BY <2>1, <2>3, <2>4, <2>6, <2>7, MovesKeep
<1>4. CASE OldRemove
  <2>1. /\ dir' = [k \in Keys |-> {}]
        /\ UNCHANGED <<ses, created, map, req, async, cleaner, cleaned, hit>>
    BY <1>4 DEF OldRemove
  <2>2. SesMoves
    BY <2>1, <1>0 DEF SesMoves
  <2>3. DirFit' /\ CleanedStaysClean' /\ RunningIsKnown' /\ TypeOK'
    BY <2>1 DEF DirFit, CleanedStaysClean, RunningIsKnown, TypeOK
  <2>4. QED BY <2>1, <2>2, <2>3, MovesKeep
<1>5. QED BY <1>1, <1>2, <1>3, <1>4

\* Every step keeps the invariant.
LEMMA InvStep == Inv /\ [Next]_vars => Inv'
<1> SUFFICES ASSUME Inv, [Next]_vars PROVE Inv'
  OBVIOUS
<1>1. CASE UNCHANGED vars
  BY <1>1 DEF vars, Inv, TypeOK, SesFit, MapFit, ReqFit, CleanFit, DirFit, MutexFit, Of,
              CleanedStaysClean, RunningIsKnown
<1>2. ASSUME NEW i \in Ids, Write(i) \/ FFmpegEnds(i) \/ FFmpegDies(i) \/ StopOther(i)
      PROVE Inv'
  BY <1>2, ProcessStep
<1>3. ASSUME NEW r \in Requests, RequestStep(r) \/ \E k \in Keys : Ask(r, k)
      PROVE Inv'
  BY <1>3, RequestStopsStep, RequestDeletesStep, CreateStep, PutStep DEF RequestStep
<1>4. CASE (\E k \in Keys : CleanIdle(k)) \/ CleanStopped \/ CleanRemove \/ OldRemove
  BY <1>4, CleanerStep
<1>5. CASE AskOther
  BY <1>5, AskOtherStep
<1>6. QED BY <1>1, <1>2, <1>3, <1>4, <1>5 DEF Next

\* Every variable of the session manager keeps its type.
THEOREM SessionTypes == Spec => []TypeOK
<1>1. Inv => TypeOK
  BY DEF Inv
<1>2. QED BY InvInit, InvStep, <1>1, PTL DEF Spec

\* No file of a session comes back after its directory was removed for it,
\* whoever stops it and however often.
THEOREM CleanedIsClean == Spec => []CleanedStaysClean
<1>1. Inv => CleanedStaysClean
  BY DEF Inv
<1>2. QED BY InvInit, InvStep, <1>1, PTL DEF Spec

\* An FFmpeg process that runs can be found, unless a late deletion by key took
\* the entry of its session away.
THEOREM RunningKnown == Spec => []RunningIsKnown
<1>1. Inv => RunningIsKnown
  BY DEF Inv
<1>2. QED BY InvInit, InvStep, <1>1, PTL DEF Spec
=============================================================================
