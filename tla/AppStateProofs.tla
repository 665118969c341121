-------------------------- MODULE AppStateProofs --------------------------
(***************************************************************************)
(* Theorems about AppState, for any number of attempts, reconnect loops    *)
(* and file threads.  Each lemma XNext shows that every step keeps X, one  *)
(* leaf per action; IInv is their conjunction.                             *)
(***************************************************************************)
EXTENDS AppState, TLAPS

(* What the shared operators do to the fields they change. *)
LEMMA PassTestsType ==
  ASSUME TypeOK, NEW r \in Roles, NEW c \in 0 .. MaxTries, PassTests(r, c)
  PROVE  /\ tries' \in 0 .. MaxTries
         /\ role' \in [Tries -> Roles]
         /\ caller' \in [Tries -> 0 .. MaxTries]
         /\ worker' \in [Tries -> WorkerPCs]
         /\ \A t \in Tries : worker'[t] = "none" <=> t > tries'
         /\ overlapped' \in BOOLEAN
<1> USE AppAssumption DEF TypeOK, PassTests, WorkerGoto, Tries
<1>1. tries' = tries + 1 /\ tries + 1 \in Tries
  OBVIOUS
<1>2. "create" \in WorkerPCs
  BY DEF WorkerPCs
<1>3. worker' \in [Tries -> WorkerPCs]
  BY <1>2
<1>4. ASSUME NEW t \in Tries PROVE worker'[t] = "none" <=> t > tries'
  <2>1. tries \in Nat /\ t \in Nat /\ (worker[t] = "none" <=> t > tries)
    OBVIOUS
  <2>2. worker'[t] = IF t = tries + 1 THEN "create" ELSE worker[t]
    BY <1>1
  <2>3. CASE t = tries + 1
    BY <1>1, <2>1, <2>2, <2>3
  <2>4. CASE t # tries + 1
    BY <1>1, <2>1, <2>2, <2>4
  <2> QED BY <2>3, <2>4
<1>5. overlapped' \in BOOLEAN
  OBVIOUS
<1> QED BY <1>1, <1>3, <1>4, <1>5

(* The same for the replacement of a pointer. *)
LEMMA SetPointerType ==
  ASSUME TypeOK, NEW r \in Roles, NEW n \in 0 .. MaxTries, SetPointer(r, n)
  PROVE  /\ ptr' \in [Roles -> 0 .. MaxTries]
         /\ obj' \in [Tries -> {"none", "new", "up", "down", "gone"}]
         /\ fault' \in {"none", "null", "dangling", "terminate"}
<1> USE AppAssumption DEF TypeOK, SetPointer
<1>1. fault' \in {"none", "null", "dangling", "terminate"}
  BY DEF DestroyFault
<1>2. \A o \in Tries : obj'[o] \in {"none", "new", "up", "down", "gone"}
  OBVIOUS
<1> QED BY <1>1, <1>2

(* A worker that has started goes on, or stays where it is. *)
LEMMA WorkerType ==
  ASSUME TypeOK, NEW t \in Tries, NEW pc \in WorkerPCs, worker[t] # "none", pc # "none",
         worker' \in {worker, [worker EXCEPT ![t] = pc]}, UNCHANGED tries
  PROVE  /\ worker' \in [Tries -> WorkerPCs]
         /\ \A u \in Tries : worker'[u] = "none" <=> u > tries'
<1>1. worker \in [Tries -> WorkerPCs] /\ \A u \in Tries : worker[u] = "none" <=> u > tries
  BY DEF TypeOK
<1>2. worker' \in [Tries -> WorkerPCs]
  BY <1>1
<1>3. \A u \in Tries : worker'[u] = "none" <=> worker[u] = "none"
  BY <1>1
<1> QED BY <1>1, <1>2, <1>3

(* Entering an object keeps the types. *)
LEMMA EnterType ==
  ASSUME TypeOK, NEW t \in Tries, NEW pc \in WorkerPCs, worker[t] # "none", pc # "none",
         Enter(t, pc), UNCHANGED tries
  PROVE  /\ at' \in [Tries -> 0 .. MaxTries]
         /\ fault' \in {"none", "null", "dangling", "terminate"}
         /\ worker' \in [Tries -> WorkerPCs]
         /\ \A u \in Tries : worker'[u] = "none" <=> u > tries'
<1>1. ptr[role[t]] \in 0 .. MaxTries
  BY DEF TypeOK
<1>2. at' \in [Tries -> 0 .. MaxTries] /\ fault' \in {"none", "null", "dangling", "terminate"}
  BY <1>1 DEF Enter, TypeOK
<1>3. worker' \in {worker, [worker EXCEPT ![t] = pc]}
  BY DEF Enter, WorkerGoto
<1> QED BY <1>2, <1>3, WorkerType

(* Every step keeps the types. *)
LEMMA TypeNext == TypeOK /\ [Next]_vars => TypeOK'
<1> SUFFICES ASSUME TypeOK, [Next]_vars PROVE TypeOK'
  OBVIOUS
<1> USE AppAssumption DEF pointers, calls, window, senders, threads, history, settings,
                          WorkerGoto, LoopGoto, TypeOK, WorkerPCs, Tries
<1>1. ASSUME NEW r \in Roles, Press(r) PROVE TypeOK'
  <2>1. r \in Roles /\ 0 \in 0 .. MaxTries /\ PassTests(r, 0)
    BY <1>1 DEF Press, Roles
  <2> HIDE DEF TypeOK, WorkerPCs, Tries
  <2>2. tries' \in 0 .. MaxTries /\ role' \in [Tries -> Roles] /\ caller' \in [Tries -> 0 .. MaxTries]
    BY <2>1, PassTestsType
  <2>3. worker' \in [Tries -> WorkerPCs] /\ overlapped' \in BOOLEAN
    BY <2>1, PassTestsType
  <2>4. \A u \in Tries : worker'[u] = "none" <=> u > tries'
    BY <2>1, PassTestsType
  <2> QED BY <1>1, <2>2, <2>3, <2>4 DEF Press, TypeOK
<1>2. ASSUME NEW r \in Roles, Release(r) PROVE TypeOK'
  <2>1. flag' \in [Roles -> BOOLEAN]
    BY <1>2 DEF Release
  <2>2. reconnect_running' \in BOOLEAN
    BY <1>2, Zenon DEF Release
  <2>3. gui' \in {"idle", "create", "hangup", "hanging", "release", "call", "calling"} /\ guiRole' \in Roles
    BY <1>2 DEF Release
  <2> QED BY <1>2, <2>1, <2>2, <2>3 DEF Release
<1>3. ASSUME NEW r \in Roles, CallTest(r) PROVE TypeOK'
  BY <1>3 DEF CallTest
<1>4. ASSUME NEW r \in Roles, NEW s \in Sends, SendFile(r, s) PROVE TypeOK'
  BY <1>4 DEF SendFile
<1>5. CASE HangUp
  BY <1>5 DEF HangUp, GuiEnter
<1>5u. CASE HungUp
  BY <1>5u DEF HungUp, GuiReturns
<1>6. CASE Reset
  <2>1. 0 \in 0 .. MaxTries
    OBVIOUS
  <2> QED BY <1>6, <2>1, SetPointerType DEF Reset
<1>7. CASE Call
  BY <1>7 DEF Call, GuiEnter
<1>7d. CASE Called
  BY <1>7d DEF Called, GuiReturns
<1>8. CASE ToggleAuto
  BY <1>8 DEF ToggleAuto
<1>9. CASE Quit
  BY <1>9 DEF Quit
<1>10. ASSUME NEW t \in Tries, Create(t) PROVE TypeOK'
  <2>1. t \in 0 .. MaxTries /\ role[t] \in Roles
    OBVIOUS
  <2>2. SetPointer(role[t], t)
    BY <1>10 DEF Create
  <2>3. loop' \in [Tries -> {"none", "test", "sleep", "create", "wait", "done"}]
    BY <1>10 DEF Create
  <2>4. gui' \in {"idle", "create", "hangup", "hanging", "release", "call", "calling"}
    BY <1>10 DEF Create
  <2>5. worker' \in [Tries -> WorkerPCs] /\ worker[t] = "create"
    BY <1>10 DEF Create
  <2>6. \A u \in Tries : worker'[u] = "none" <=> u > tries'
    BY <1>10, <2>5 DEF Create
  <2> QED BY <1>10, <2>1, <2>2, <2>3, <2>4, <2>5, <2>6, SetPointerType DEF Create
<1>11. ASSUME NEW t \in Tries, Begin(t) PROVE TypeOK'
  <2>1. worker[t] # "none" /\ "connecting" \in WorkerPCs /\ Enter(t, "connecting") /\ UNCHANGED tries
    BY <1>11 DEF Begin
  <2>2. /\ at' \in [Tries -> 0 .. MaxTries]
        /\ fault' \in {"none", "null", "dangling", "terminate"}
        /\ worker' \in [Tries -> WorkerPCs]
        /\ \A u \in Tries : worker'[u] = "none" <=> u > tries'
    BY <2>1, EnterType
  <2> QED BY <1>11, <2>2 DEF Begin
<1>12. ASSUME NEW t \in Tries, Connected(t) PROVE TypeOK'
  <2>1. \A o \in Tries : obj'[o] \in {obj[o], "up"}
    BY <1>12 DEF Connected
  <2>0. obj' = [o \in Tries |-> obj'[o]]
    BY <1>12 DEF Connected
  <2>3. obj' \in [Tries -> {"none", "new", "up", "down", "gone"}]
    BY <2>0, <2>1
  <2>2. fault' \in {"none", "null", "dangling", "terminate"}
    BY <1>12 DEF Connected
  <2> QED BY <1>12, <2>2, <2>3 DEF Connected
<1>13. ASSUME NEW t \in Tries, ConnectFails(t) PROVE TypeOK'
  <2>1. PICK pc \in {"lost"} : WorkerGoto(t, pc)
    BY <1>13 DEF ConnectFails
  <2>2. worker[t] # "none" /\ UNCHANGED tries
    BY <1>13 DEF ConnectFails
  <2>3. worker' \in [Tries -> WorkerPCs] /\ \A u \in Tries : worker'[u] = "none" <=> u > tries'
    BY <2>1, <2>2, WorkerType
  <2> QED BY <1>13, <2>3 DEF ConnectFails
<1>14. ASSUME NEW t \in Tries, Discard(t) PROVE TypeOK'
  <2>1. 0 \in 0 .. MaxTries /\ role[t] \in Roles /\ SetPointer(role[t], 0)
    BY <1>14 DEF Discard
  <2>2. worker[t] # "none" /\ WorkerGoto(t, "done") /\ UNCHANGED tries
    BY <1>14 DEF Discard
  <2>3. worker' \in [Tries -> WorkerPCs] /\ \A u \in Tries : worker'[u] = "none" <=> u > tries'
    BY <2>2, WorkerType
  <2>4. /\ ptr' \in [Roles -> 0 .. MaxTries]
        /\ obj' \in [Tries -> {"none", "new", "up", "down", "gone"}]
        /\ fault' \in {"none", "null", "dangling", "terminate"}
    BY <2>1, SetPointerType
  <2> QED BY <1>14, <2>3, <2>4 DEF Discard
<1>15. ASSUME NEW t \in Tries, SetFlag(t) PROVE TypeOK'
  <2>1. PICK pc \in {"request", "test"} : WorkerGoto(t, pc)
    BY <1>15 DEF SetFlag
  <2>2. worker[t] # "none" /\ UNCHANGED tries
    BY <1>15 DEF SetFlag
  <2>3. worker' \in [Tries -> WorkerPCs] /\ \A u \in Tries : worker'[u] = "none" <=> u > tries'
    BY <2>1, <2>2, WorkerType
  <2> QED BY <1>15, <2>3 DEF SetFlag
<1>16. ASSUME NEW t \in Tries, Request(t) PROVE TypeOK'
  <2>1. worker[t] # "none" /\ "requesting" \in WorkerPCs /\ Enter(t, "requesting") /\ UNCHANGED tries
    BY <1>16 DEF Request
  <2>2. /\ at' \in [Tries -> 0 .. MaxTries]
        /\ fault' \in {"none", "null", "dangling", "terminate"}
        /\ worker' \in [Tries -> WorkerPCs]
        /\ \A u \in Tries : worker'[u] = "none" <=> u > tries'
    BY <2>1, EnterType
  <2> QED BY <1>16, <2>2 DEF Request
<1>16d. ASSUME NEW t \in Tries, Requested(t) PROVE TypeOK'
  <2>1. PICK pc \in {"test"} : WorkerGoto(t, pc)
    BY <1>16d DEF Requested
  <2>2. worker[t] # "none" /\ UNCHANGED tries
    BY <1>16d DEF Requested
  <2>3. worker' \in [Tries -> WorkerPCs] /\ \A u \in Tries : worker'[u] = "none" <=> u > tries'
    BY <2>1, <2>2, WorkerType
  <2> QED BY <1>16d, <2>3 DEF Requested
<1>17. ASSUME NEW t \in Tries, PollTest(t) PROVE TypeOK'
  <2>1. PICK pc \in {"deref", "ended", "done"} : WorkerGoto(t, pc)
    BY <1>17 DEF PollTest
  <2>2. worker[t] # "none" /\ UNCHANGED tries
    BY <1>17 DEF PollTest
  <2>3. worker' \in [Tries -> WorkerPCs] /\ \A u \in Tries : worker'[u] = "none" <=> u > tries'
    BY <2>1, <2>2, WorkerType
  <2> QED BY <1>17, <2>3 DEF PollTest
<1>18. ASSUME NEW t \in Tries, PollDeref(t) PROVE TypeOK'
  <2>1. worker[t] # "none" /\ "polling" \in WorkerPCs /\ Enter(t, "polling") /\ UNCHANGED tries
    BY <1>18 DEF PollDeref
  <2>2. /\ at' \in [Tries -> 0 .. MaxTries]
        /\ fault' \in {"none", "null", "dangling", "terminate"}
        /\ worker' \in [Tries -> WorkerPCs]
        /\ \A u \in Tries : worker'[u] = "none" <=> u > tries'
    BY <2>1, EnterType
  <2> QED BY <1>18, <2>2 DEF PollDeref
<1>18s. ASSUME NEW t \in Tries, RefreshSkips(t) PROVE TypeOK'
  <2>1. WorkerGoto(t, "test") /\ worker[t] # "none" /\ UNCHANGED tries
    BY <1>18s DEF RefreshSkips
  <2>2. worker' \in [Tries -> WorkerPCs] /\ \A u \in Tries : worker'[u] = "none" <=> u > tries'
    BY <2>1, WorkerType
  <2> QED BY <1>18s, <2>2 DEF RefreshSkips
<1>18d. ASSUME NEW t \in Tries, Polled(t) PROVE TypeOK'
  <2>1. PICK pc \in {"ended", "test", "request"} : WorkerGoto(t, pc)
    BY <1>18d DEF Polled
  <2>2. worker[t] # "none" /\ UNCHANGED tries
    BY <1>18d DEF Polled
  <2>3. worker' \in [Tries -> WorkerPCs] /\ \A u \in Tries : worker'[u] = "none" <=> u > tries'
    BY <2>1, <2>2, WorkerType
  <2> QED BY <1>18d, <2>3 DEF Polled
<1>19. ASSUME NEW t \in Tries, ClearFlag(t) PROVE TypeOK'
  <2>1. PICK pc \in {"after"} : WorkerGoto(t, pc)
    BY <1>19 DEF ClearFlag
  <2>2. worker[t] # "none" /\ UNCHANGED tries
    BY <1>19 DEF ClearFlag
  <2>3. worker' \in [Tries -> WorkerPCs] /\ \A u \in Tries : worker'[u] = "none" <=> u > tries'
    BY <2>1, <2>2, WorkerType
  <2>4. flag' \in [Roles -> BOOLEAN]
    BY <1>19 DEF ClearFlag
  <2> HIDE DEF WorkerGoto
  <2> QED BY <1>19, <2>3, <2>4 DEF ClearFlag
<1>20. ASSUME NEW t \in Tries, RetryTest(t) PROVE TypeOK'
  <2>1. PICK pc \in {"spawn", "done"} : WorkerGoto(t, pc)
    BY <1>20 DEF RetryTest
  <2>2. worker[t] # "none" /\ UNCHANGED tries
    BY <1>20 DEF RetryTest
  <2>3. worker' \in [Tries -> WorkerPCs] /\ \A u \in Tries : worker'[u] = "none" <=> u > tries'
    BY <2>1, <2>2, WorkerType
  <2> HIDE DEF WorkerGoto
  <2> QED BY <1>20, <2>3 DEF RetryTest
<1>21. ASSUME NEW t \in Tries, SpawnLoop(t) PROVE TypeOK'
  <2>1. PICK pc \in {"done"} : WorkerGoto(t, pc)
    BY <1>21 DEF SpawnLoop
  <2>2. worker[t] # "none" /\ UNCHANGED tries
    BY <1>21 DEF SpawnLoop
  <2>3. worker' \in [Tries -> WorkerPCs] /\ \A u \in Tries : worker'[u] = "none" <=> u > tries'
    BY <2>1, <2>2, WorkerType
  <2> QED BY <1>21, <2>3 DEF SpawnLoop
<1>22. ASSUME NEW t \in Tries, LoopTest(t) PROVE TypeOK'
  BY <1>22, SMTT(30) DEF LoopTest
<1>23. ASSUME NEW t \in Tries, LoopWakes(t) PROVE TypeOK'
  <2>1. loop' \in [Tries -> {"none", "test", "sleep", "create", "wait", "done"}]
    BY <1>23 DEF LoopWakes
  <2>2. \A u \in Tries : worker'[u] = "none" <=> u > tries'
    BY <1>23 DEF LoopWakes
  <2> QED BY <1>23, <2>1, <2>2, SMTT(30) DEF LoopWakes
<1>24. ASSUME NEW t \in Tries, LoopConnects(t) PROVE TypeOK'
  <2>1. "client" \in Roles /\ t \in 0 .. MaxTries /\ PassTests("client", t)
    BY <1>24 DEF LoopConnects, Roles
  <2> HIDE DEF TypeOK, WorkerPCs, Tries
  <2>2. tries' \in 0 .. MaxTries /\ role' \in [Tries -> Roles] /\ caller' \in [Tries -> 0 .. MaxTries]
    BY <2>1, PassTestsType
  <2>3. worker' \in [Tries -> WorkerPCs] /\ overlapped' \in BOOLEAN
    BY <2>1, PassTestsType
  <2>4. \A u \in Tries : worker'[u] = "none" <=> u > tries'
    BY <2>1, PassTestsType
  <2> QED BY <1>24, <2>2, <2>3, <2>4 DEF LoopConnects, TypeOK
<1>25. ASSUME NEW t \in Tries, LoopWaited(t) PROVE TypeOK'
  <2>1. loop' \in [Tries -> {"none", "test", "sleep", "create", "wait", "done"}]
    BY <1>25 DEF LoopWaited
  <2>2. reconnect_running' \in BOOLEAN
    BY <1>25 DEF LoopWaited
  <2> QED BY <1>25, <2>1, <2>2, SMTT(30) DEF LoopWaited
<1>26. ASSUME NEW t \in Tries, SessionDrops(t) PROVE TypeOK'
  BY <1>26, SMTT(30) DEF SessionDrops
<1>27. ASSUME NEW s \in Sends, SenderBegins(s) PROVE TypeOK'
  <2>1. ptr[senderRole[s]] \in 0 .. MaxTries
    OBVIOUS
  <2>2. senderAt' \in [Sends -> 0 .. MaxTries]
    BY <1>27, <2>1 DEF SenderBegins
  <2>3. fault' \in {"none", "null", "dangling", "terminate"}
    BY <1>27 DEF SenderBegins
  <2>4. sender' \in [Sends -> {"none", "begin", "sending", "done"}]
    BY <1>27 DEF SenderBegins
  <2> QED BY <1>27, <2>2, <2>3, <2>4, SMTT(30) DEF SenderBegins
<1>28. ASSUME NEW s \in Sends, SenderEnds(s) PROVE TypeOK'
  BY <1>28, SMTT(30) DEF SenderEnds
<1>29. CASE UNCHANGED vars
  BY <1>29 DEF vars
<1> QED BY <1>1, <1>2, <1>3, <1>4, <1>5, <1>5u, <1>6, <1>7, <1>7d, <1>8, <1>9, <1>10, <1>11, <1>12,
           <1>13, <1>14, <1>15, <1>16, <1>16d, <1>17, <1>18, <1>18s, <1>18d, <1>19, <1>20, <1>21, <1>22, <1>23,
           <1>24, <1>25, <1>26, <1>27, <1>28, <1>29 DEF Next, Step, Gui, Worker, Loop
-----------------------------------------------------------------------------
(* Why the roles exclude each other.  As long as no try overlapped another, at *)
(* most one is unsettled, both flags are down meanwhile and nobody releases a  *)
(* session; so the pointer of an unsettled try is its own, and the flag it     *)
(* finally raises is about the object it made.                                 *)

Drops == \A o \in Tries : obj[o] = "down" => dropped

Single == ~overlapped =>
    /\ \A t, u \in Tries : Unsettled(t) /\ Unsettled(u) => t = u
    /\ \A t \in Tries : Unsettled(t) => ~flag["client"] /\ ~flag["server"] /\ ~Releasing
    /\ Releasing => ~flag["client"] /\ ~flag["server"]
    /\ ~(flag["client"] /\ flag["server"])

Own == ~overlapped => \A t \in Tries :
    /\ worker[t] \in {"begin", "connecting", "lost", "won"} => ptr[role[t]] = t
    /\ worker[t] = "connecting" => at[t] = t
    /\ worker[t] \in {"begin", "connecting", "lost"} => obj[t] = "new"
    /\ worker[t] = "won" => obj[t] \in {"up", "down"}



(* A session that is down has dropped. *)
LEMMA DropsNext == TypeOK /\ Drops /\ Running /\ [Next]_vars => Drops'
<1> SUFFICES ASSUME TypeOK, Drops, Running, [Next]_vars PROVE Drops'
  OBVIOUS
<1> USE AppAssumption DEF pointers, calls, window, senders, threads, history, settings,
                          WorkerGoto, LoopGoto, Drops
<1>1. ASSUME NEW r \in Roles, Press(r) PROVE Drops'
  BY <1>1 DEF Press, PassTests, MayStart
<1>2. ASSUME NEW r \in Roles, Release(r) PROVE Drops'
  BY <1>2 DEF Release
<1>3. ASSUME NEW r \in Roles, CallTest(r) PROVE Drops'
  BY <1>3 DEF CallTest
<1>4. ASSUME NEW r \in Roles, NEW s \in Sends, SendFile(r, s) PROVE Drops'
  BY <1>4 DEF SendFile
<1>5. CASE HangUp
  BY <1>5 DEF HangUp, GuiEnter
<1>5u. CASE HungUp
  BY <1>5u DEF HungUp, GuiReturns
<1>6. CASE Reset
  BY <1>6 DEF Reset, SetPointer
<1>7. CASE Call
  BY <1>7 DEF Call, GuiEnter
<1>7d. CASE Called
  BY <1>7d DEF Called, GuiReturns
<1>8. CASE ToggleAuto
  BY <1>8 DEF ToggleAuto
<1>9. CASE Quit
  BY <1>9 DEF Quit
<1>10. ASSUME NEW t \in Tries, Create(t) PROVE Drops'
  BY <1>10 DEF Create, SetPointer
<1>11. ASSUME NEW t \in Tries, Begin(t) PROVE Drops'
  BY <1>11 DEF Begin, Enter
<1>12. ASSUME NEW t \in Tries, Connected(t) PROVE Drops'
  <2>1. \A o \in Tries : obj'[o] \in {obj[o], "up"}
    BY <1>12 DEF Connected, TypeOK
  <2> QED BY <1>12, <2>1 DEF Connected
<1>13. ASSUME NEW t \in Tries, ConnectFails(t) PROVE Drops'
  BY <1>13 DEF ConnectFails
<1>14. ASSUME NEW t \in Tries, Discard(t) PROVE Drops'
  BY <1>14 DEF Discard, SetPointer
<1>15. ASSUME NEW t \in Tries, SetFlag(t) PROVE Drops'
  BY <1>15 DEF SetFlag
<1>16. ASSUME NEW t \in Tries, Request(t) PROVE Drops'
  BY <1>16 DEF Request, Enter
<1>16d. ASSUME NEW t \in Tries, Requested(t) PROVE Drops'
  BY <1>16d DEF Requested
<1>17. ASSUME NEW t \in Tries, PollTest(t) PROVE Drops'
  BY <1>17 DEF PollTest
<1>18. ASSUME NEW t \in Tries, PollDeref(t) PROVE Drops'
  BY <1>18 DEF PollDeref, Enter
<1>18s. ASSUME NEW t \in Tries, RefreshSkips(t) PROVE Drops'
  BY <1>18s DEF RefreshSkips
<1>18d. ASSUME NEW t \in Tries, Polled(t) PROVE Drops'
  BY <1>18d DEF Polled
<1>19. ASSUME NEW t \in Tries, ClearFlag(t) PROVE Drops'
  BY <1>19 DEF ClearFlag
<1>20. ASSUME NEW t \in Tries, RetryTest(t) PROVE Drops'
  BY <1>20 DEF RetryTest
<1>21. ASSUME NEW t \in Tries, SpawnLoop(t) PROVE Drops'
  BY <1>21 DEF SpawnLoop
<1>22. ASSUME NEW t \in Tries, LoopTest(t) PROVE Drops'
  BY <1>22 DEF LoopTest
<1>23. ASSUME NEW t \in Tries, LoopWakes(t) PROVE Drops'
  BY <1>23 DEF LoopWakes
<1>24. ASSUME NEW t \in Tries, LoopConnects(t) PROVE Drops'
  BY <1>24 DEF LoopConnects, PassTests, MayStart
<1>25. ASSUME NEW t \in Tries, LoopWaited(t) PROVE Drops'
  BY <1>25 DEF LoopWaited
<1>26. ASSUME NEW t \in Tries, SessionDrops(t) PROVE Drops'
  BY <1>26 DEF SessionDrops
<1>27. ASSUME NEW s \in Sends, SenderBegins(s) PROVE Drops'
  BY <1>27 DEF SenderBegins
<1>28. ASSUME NEW s \in Sends, SenderEnds(s) PROVE Drops'
  BY <1>28 DEF SenderEnds
<1>29. CASE UNCHANGED vars
  BY <1>29 DEF vars
<1> QED BY <1>1, <1>2, <1>3, <1>4, <1>5, <1>5u, <1>6, <1>7, <1>7d, <1>8, <1>9, <1>10, <1>11, <1>12,
           <1>13, <1>14, <1>15, <1>16, <1>16d, <1>17, <1>18, <1>18s, <1>18d, <1>19, <1>20, <1>21, <1>22, <1>23,
           <1>24, <1>25, <1>26, <1>27, <1>28, <1>29 DEF Next, Step, Gui, Worker, Loop

(* A caller that passes the tests is alone, or overlapped is set. *)
LEMMA PassTestsSingle ==
  ASSUME TypeOK, Single, NEW r \in Roles, NEW c \in 0 .. MaxTries, PassTests(r, c),
         UNCHANGED flag, gui' \in {gui, "create"}
  PROVE  Single'
<1> USE AppAssumption DEF TypeOK, PassTests, WorkerGoto, MayStart, Other, Roles
<1> SUFFICES ASSUME ~overlapped' PROVE Single'
  BY DEF Single
<1>1. ~Releasing /\ \A t \in Tries : ~Unsettled(t)
  OBVIOUS
<1>2. ~flag["client"] /\ ~flag["server"]
  OBVIOUS
<1>3. \A t \in Tries : Unsettled(t)' => t = tries + 1
  BY <1>1 DEF Unsettled
<1>4. ~Releasing'
  BY <1>1 DEF Releasing
<1> HIDE DEF PassTests, TypeOK
<1> QED BY <1>2, <1>3, <1>4 DEF Single

(* One unsettled try at a time, unless attempts overlapped. *)
LEMMA SingleNext == TypeOK /\ Single /\ Running /\ [Next]_vars => Single'
<1> SUFFICES ASSUME TypeOK, Single, Running, [Next]_vars PROVE Single'
  OBVIOUS
<1> USE AppAssumption DEF pointers, calls, window, senders, threads, history, settings,
                          WorkerGoto, LoopGoto, Single, Unsettled, Releasing, TypeOK,
                          Roles, Other
<1>1. ASSUME NEW r \in Roles, Press(r) PROVE Single'
  <2>1. r \in Roles /\ 0 \in 0 .. MaxTries /\ PassTests(r, 0)
    BY <1>1 DEF Press, Tries
  <2>2. UNCHANGED flag /\ gui' \in {gui, "create"}
    BY <1>1 DEF Press
  <2> HIDE DEF Single, TypeOK, Roles
  <2> QED BY <2>1, <2>2, PassTestsSingle
<1>2. ASSUME NEW r \in Roles, Release(r) PROVE Single'
  BY <1>2 DEF Release
<1>3. ASSUME NEW r \in Roles, CallTest(r) PROVE Single'
  BY <1>3 DEF CallTest
<1>4. ASSUME NEW r \in Roles, NEW s \in Sends, SendFile(r, s) PROVE Single'
  BY <1>4 DEF SendFile
<1>5. CASE HangUp
  BY <1>5 DEF HangUp, GuiEnter
<1>5u. CASE HungUp
  BY <1>5u DEF HungUp, GuiReturns
<1>6. CASE Reset
  BY <1>6 DEF Reset, SetPointer
<1>7. CASE Call
  BY <1>7 DEF Call, GuiEnter
<1>7d. CASE Called
  BY <1>7d DEF Called, GuiReturns
<1>8. CASE ToggleAuto
  BY <1>8 DEF ToggleAuto
<1>9. CASE Quit
  BY <1>9 DEF Quit
<1>10. ASSUME NEW t \in Tries, Create(t) PROVE Single'
  BY <1>10 DEF Create, SetPointer
<1>11. ASSUME NEW t \in Tries, Begin(t) PROVE Single'
  BY <1>11 DEF Begin, Enter
<1>12. ASSUME NEW t \in Tries, Connected(t) PROVE Single'
  BY <1>12 DEF Connected
<1>13. ASSUME NEW t \in Tries, ConnectFails(t) PROVE Single'
  BY <1>13 DEF ConnectFails
<1>14. ASSUME NEW t \in Tries, Discard(t) PROVE Single'
  BY <1>14 DEF Discard, SetPointer
<1>15. ASSUME NEW t \in Tries, SetFlag(t) PROVE Single'
  BY <1>15 DEF SetFlag
<1>16. ASSUME NEW t \in Tries, Request(t) PROVE Single'
  BY <1>16 DEF Request, Enter
<1>16d. ASSUME NEW t \in Tries, Requested(t) PROVE Single'
  BY <1>16d DEF Requested
<1>17. ASSUME NEW t \in Tries, PollTest(t) PROVE Single'
  BY <1>17 DEF PollTest
<1>18. ASSUME NEW t \in Tries, PollDeref(t) PROVE Single'
  BY <1>18 DEF PollDeref, Enter
<1>18s. ASSUME NEW t \in Tries, RefreshSkips(t) PROVE Single'
  BY <1>18s DEF RefreshSkips
<1>18d. ASSUME NEW t \in Tries, Polled(t) PROVE Single'
  BY <1>18d DEF Polled
<1>19. ASSUME NEW t \in Tries, ClearFlag(t) PROVE Single'
  BY <1>19 DEF ClearFlag
<1>20. ASSUME NEW t \in Tries, RetryTest(t) PROVE Single'
  BY <1>20 DEF RetryTest
<1>21. ASSUME NEW t \in Tries, SpawnLoop(t) PROVE Single'
  BY <1>21 DEF SpawnLoop
<1>22. ASSUME NEW t \in Tries, LoopTest(t) PROVE Single'
  BY <1>22 DEF LoopTest
<1>23. ASSUME NEW t \in Tries, LoopWakes(t) PROVE Single'
  BY <1>23 DEF LoopWakes
<1>24. ASSUME NEW t \in Tries, LoopConnects(t) PROVE Single'
  <2>1. "client" \in Roles /\ t \in 0 .. MaxTries /\ PassTests("client", t)
    BY <1>24 DEF LoopConnects, Tries
  <2>2. UNCHANGED flag /\ gui' \in {gui, "create"}
    BY <1>24 DEF LoopConnects
  <2> HIDE DEF Single, TypeOK, Roles
  <2> QED BY <2>1, <2>2, PassTestsSingle
<1>25. ASSUME NEW t \in Tries, LoopWaited(t) PROVE Single'
  BY <1>25 DEF LoopWaited
<1>26. ASSUME NEW t \in Tries, SessionDrops(t) PROVE Single'
  BY <1>26 DEF SessionDrops
<1>27. ASSUME NEW s \in Sends, SenderBegins(s) PROVE Single'
  BY <1>27 DEF SenderBegins
<1>28. ASSUME NEW s \in Sends, SenderEnds(s) PROVE Single'
  BY <1>28 DEF SenderEnds
<1>29. CASE UNCHANGED vars
  BY <1>29 DEF vars
<1> QED BY <1>1, <1>2, <1>3, <1>4, <1>5, <1>5u, <1>6, <1>7, <1>7d, <1>8, <1>9, <1>10, <1>11, <1>12,
           <1>13, <1>14, <1>15, <1>16, <1>16d, <1>17, <1>18, <1>18s, <1>18d, <1>19, <1>20, <1>21, <1>22, <1>23,
           <1>24, <1>25, <1>26, <1>27, <1>28, <1>29 DEF Next, Step, Gui, Worker, Loop

(* An unsettled try keeps its pointer and its object. *)
LEMMA OwnNext == TypeOK /\ Single /\ Own /\ Running /\ [Next]_vars => Own'
<1> SUFFICES ASSUME TypeOK, Single, Own, Running, [Next]_vars PROVE Own'
  OBVIOUS
<1> USE AppAssumption DEF pointers, calls, window, senders, threads, history, settings,
                          WorkerGoto, LoopGoto, Single, Own, Unsettled, Releasing,
                          TypeOK, Roles, Other
<1>1. ASSUME NEW r \in Roles, Press(r) PROVE Own'
  BY <1>1 DEF Press, PassTests, MayStart
<1>2. ASSUME NEW r \in Roles, Release(r) PROVE Own'
  BY <1>2 DEF Release
<1>3. ASSUME NEW r \in Roles, CallTest(r) PROVE Own'
  BY <1>3 DEF CallTest
<1>4. ASSUME NEW r \in Roles, NEW s \in Sends, SendFile(r, s) PROVE Own'
  BY <1>4 DEF SendFile
<1>5. CASE HangUp
  BY <1>5 DEF HangUp, GuiEnter
<1>5u. CASE HungUp
  BY <1>5u DEF HungUp, GuiReturns
<1>6. CASE Reset
  BY <1>6 DEF Reset, SetPointer
<1>7. CASE Call
  BY <1>7 DEF Call, GuiEnter
<1>7d. CASE Called
  BY <1>7d DEF Called, GuiReturns
<1>8. CASE ToggleAuto
  BY <1>8 DEF ToggleAuto
<1>9. CASE Quit
  BY <1>9 DEF Quit
<1>10. ASSUME NEW t \in Tries, Create(t) PROVE Own'
  <2> SUFFICES ASSUME ~overlapped, NEW u \in Tries
                PROVE  /\ worker'[u] \in {"begin", "connecting", "lost", "won"} => ptr'[role'[u]] = u
                       /\ worker'[u] = "connecting" => at'[u] = u
                       /\ worker'[u] \in {"begin", "connecting", "lost"} => obj'[u] = "new"
                       /\ worker'[u] = "won" => obj'[u] \in {"up", "down"}
    BY <1>10 DEF Create
  <2>1. Unsettled(t)
    BY <1>10 DEF Create
  <2>2. CASE u = t
    <3>1. worker'[t] = "begin" /\ role' = role
      BY <1>10 DEF Create
    <3>2. ptr'[role[t]] = t /\ obj'[t] = "new"
      BY <1>10 DEF Create, SetPointer
    <3> QED BY <2>2, <3>1, <3>2
  <2>3. CASE u # t
    <3>1. ~Unsettled(u)
      BY <2>1, <2>3
    <3>2. worker'[u] = worker[u]
      BY <1>10, <2>3 DEF Create
    <3> QED BY <3>1, <3>2
  <2> QED BY <2>2, <2>3
<1>11. ASSUME NEW t \in Tries, Begin(t) PROVE Own'
  BY <1>11 DEF Begin, Enter
<1>12. ASSUME NEW t \in Tries, Connected(t) PROVE Own'
  BY <1>12 DEF Connected
<1>13. ASSUME NEW t \in Tries, ConnectFails(t) PROVE Own'
  BY <1>13 DEF ConnectFails
<1>14. ASSUME NEW t \in Tries, Discard(t) PROVE Own'
  BY <1>14 DEF Discard, SetPointer
<1>15. ASSUME NEW t \in Tries, SetFlag(t) PROVE Own'
  BY <1>15 DEF SetFlag
<1>16. ASSUME NEW t \in Tries, Request(t) PROVE Own'
  BY <1>16 DEF Request, Enter
<1>16d. ASSUME NEW t \in Tries, Requested(t) PROVE Own'
  BY <1>16d DEF Requested
<1>17. ASSUME NEW t \in Tries, PollTest(t) PROVE Own'
  BY <1>17 DEF PollTest
<1>18. ASSUME NEW t \in Tries, PollDeref(t) PROVE Own'
  BY <1>18 DEF PollDeref, Enter
<1>18s. ASSUME NEW t \in Tries, RefreshSkips(t) PROVE Own'
  BY <1>18s DEF RefreshSkips
<1>18d. ASSUME NEW t \in Tries, Polled(t) PROVE Own'
  BY <1>18d DEF Polled
<1>19. ASSUME NEW t \in Tries, ClearFlag(t) PROVE Own'
  BY <1>19 DEF ClearFlag
<1>20. ASSUME NEW t \in Tries, RetryTest(t) PROVE Own'
  BY <1>20 DEF RetryTest
<1>21. ASSUME NEW t \in Tries, SpawnLoop(t) PROVE Own'
  BY <1>21 DEF SpawnLoop
<1>22. ASSUME NEW t \in Tries, LoopTest(t) PROVE Own'
  BY <1>22 DEF LoopTest
<1>23. ASSUME NEW t \in Tries, LoopWakes(t) PROVE Own'
  BY <1>23 DEF LoopWakes
<1>24. ASSUME NEW t \in Tries, LoopConnects(t) PROVE Own'
  BY <1>24 DEF LoopConnects, PassTests, MayStart
<1>25. ASSUME NEW t \in Tries, LoopWaited(t) PROVE Own'
  BY <1>25 DEF LoopWaited
<1>26. ASSUME NEW t \in Tries, SessionDrops(t) PROVE Own'
  BY <1>26 DEF SessionDrops
<1>27. ASSUME NEW s \in Sends, SenderBegins(s) PROVE Own'
  BY <1>27 DEF SenderBegins
<1>28. ASSUME NEW s \in Sends, SenderEnds(s) PROVE Own'
  BY <1>28 DEF SenderEnds
<1>29. CASE UNCHANGED vars
  BY <1>29 DEF vars
<1> QED BY <1>1, <1>2, <1>3, <1>4, <1>5, <1>5u, <1>6, <1>7, <1>7d, <1>8, <1>9, <1>10, <1>11, <1>12,
           <1>13, <1>14, <1>15, <1>16, <1>16d, <1>17, <1>18, <1>18s, <1>18d, <1>19, <1>20, <1>21, <1>22, <1>23,
           <1>24, <1>25, <1>26, <1>27, <1>28, <1>29 DEF Next, Step, Gui, Worker, Loop

(* A flag is raised by its own try, and lowered before its pointer changes. *)
LEMMA TruthNext == TypeOK /\ Single /\ Own /\ FlagsTruthful /\ [Next]_vars => FlagsTruthful'
<1> SUFFICES ASSUME TypeOK, Single, Own, FlagsTruthful, [Next]_vars PROVE FlagsTruthful'
  OBVIOUS
<1> USE AppAssumption DEF pointers, calls, window, senders, threads, history, settings,
                          WorkerGoto, LoopGoto, FlagsTruthful, Single, Own, Unsettled,
                          Releasing, TypeOK, Roles, Other
<1>1. ASSUME NEW r \in Roles, Press(r) PROVE FlagsTruthful'
  BY <1>1 DEF Press, PassTests, MayStart
<1>2. ASSUME NEW r \in Roles, Release(r) PROVE FlagsTruthful'
  BY <1>2 DEF Release
<1>3. ASSUME NEW r \in Roles, CallTest(r) PROVE FlagsTruthful'
  BY <1>3 DEF CallTest
<1>4. ASSUME NEW r \in Roles, NEW s \in Sends, SendFile(r, s) PROVE FlagsTruthful'
  BY <1>4 DEF SendFile
<1>5. CASE HangUp
  BY <1>5 DEF HangUp, GuiEnter
<1>5u. CASE HungUp
  BY <1>5u DEF HungUp, GuiReturns
<1>6. CASE Reset
  BY <1>6 DEF Reset, SetPointer
<1>7. CASE Call
  BY <1>7 DEF Call, GuiEnter
<1>7d. CASE Called
  BY <1>7d DEF Called, GuiReturns
<1>8. CASE ToggleAuto
  BY <1>8 DEF ToggleAuto
<1>9. CASE Quit
  BY <1>9 DEF Quit
<1>10. ASSUME NEW t \in Tries, Create(t) PROVE FlagsTruthful'
  BY <1>10 DEF Create, SetPointer
<1>11. ASSUME NEW t \in Tries, Begin(t) PROVE FlagsTruthful'
  BY <1>11 DEF Begin, Enter
<1>12. ASSUME NEW t \in Tries, Connected(t) PROVE FlagsTruthful'
  BY <1>12 DEF Connected
<1>13. ASSUME NEW t \in Tries, ConnectFails(t) PROVE FlagsTruthful'
  BY <1>13 DEF ConnectFails
<1>14. ASSUME NEW t \in Tries, Discard(t) PROVE FlagsTruthful'
  BY <1>14 DEF Discard, SetPointer
<1>15. ASSUME NEW t \in Tries, SetFlag(t) PROVE FlagsTruthful'
  <2> SUFFICES ASSUME ~overlapped, NEW r \in Roles, flag'[r]
                PROVE  ptr[r] # 0 /\ role[ptr[r]] = r /\ obj[ptr[r]] \in {"up", "down"}
    BY <1>15 DEF SetFlag
  <2>1. worker[t] = "won" /\ ptr[role[t]] = t /\ obj[t] \in {"up", "down"}
    BY <1>15 DEF SetFlag
  <2>2. ~flag[r]
    BY <2>1
  <2>3. r = role[t]
    BY <1>15, <2>2 DEF SetFlag
  <2> QED BY <2>1, <2>3 DEF Tries
<1>16. ASSUME NEW t \in Tries, Request(t) PROVE FlagsTruthful'
  BY <1>16 DEF Request, Enter
<1>16d. ASSUME NEW t \in Tries, Requested(t) PROVE FlagsTruthful'
  BY <1>16d DEF Requested
<1>17. ASSUME NEW t \in Tries, PollTest(t) PROVE FlagsTruthful'
  BY <1>17 DEF PollTest
<1>18. ASSUME NEW t \in Tries, PollDeref(t) PROVE FlagsTruthful'
  BY <1>18 DEF PollDeref, Enter
<1>18s. ASSUME NEW t \in Tries, RefreshSkips(t) PROVE FlagsTruthful'
  BY <1>18s DEF RefreshSkips
<1>18d. ASSUME NEW t \in Tries, Polled(t) PROVE FlagsTruthful'
  BY <1>18d DEF Polled
<1>19. ASSUME NEW t \in Tries, ClearFlag(t) PROVE FlagsTruthful'
  BY <1>19 DEF ClearFlag
<1>20. ASSUME NEW t \in Tries, RetryTest(t) PROVE FlagsTruthful'
  BY <1>20 DEF RetryTest
<1>21. ASSUME NEW t \in Tries, SpawnLoop(t) PROVE FlagsTruthful'
  BY <1>21 DEF SpawnLoop
<1>22. ASSUME NEW t \in Tries, LoopTest(t) PROVE FlagsTruthful'
  BY <1>22 DEF LoopTest
<1>23. ASSUME NEW t \in Tries, LoopWakes(t) PROVE FlagsTruthful'
  BY <1>23 DEF LoopWakes
<1>24. ASSUME NEW t \in Tries, LoopConnects(t) PROVE FlagsTruthful'
  BY <1>24 DEF LoopConnects, PassTests, MayStart
<1>25. ASSUME NEW t \in Tries, LoopWaited(t) PROVE FlagsTruthful'
  BY <1>25 DEF LoopWaited
<1>26. ASSUME NEW t \in Tries, SessionDrops(t) PROVE FlagsTruthful'
  BY <1>26 DEF SessionDrops
<1>27. ASSUME NEW s \in Sends, SenderBegins(s) PROVE FlagsTruthful'
  BY <1>27 DEF SenderBegins
<1>28. ASSUME NEW s \in Sends, SenderEnds(s) PROVE FlagsTruthful'
  BY <1>28 DEF SenderEnds
<1>29. CASE UNCHANGED vars
  BY <1>29 DEF vars
<1> QED BY <1>1, <1>2, <1>3, <1>4, <1>5, <1>5u, <1>6, <1>7, <1>7d, <1>8, <1>9, <1>10, <1>11, <1>12,
           <1>13, <1>14, <1>15, <1>16, <1>16d, <1>17, <1>18, <1>18s, <1>18d, <1>19, <1>20, <1>21, <1>22, <1>23,
           <1>24, <1>25, <1>26, <1>27, <1>28, <1>29 DEF Next, Step, Gui, Worker, Loop

(* A worker that raises client_connected watches until it lowers it. *)
LEMMA WatchedNext == TypeOK /\ Watched /\ [Next]_vars => Watched'
<1> SUFFICES ASSUME TypeOK, Watched, [Next]_vars PROVE Watched'
  OBVIOUS
<1> USE AppAssumption DEF pointers, calls, window, senders, threads, history, settings,
                          WorkerGoto, LoopGoto, Watched, TypeOK, Roles
<1>1. ASSUME NEW r \in Roles, Press(r) PROVE Watched'
  BY <1>1 DEF Press, PassTests, MayStart
<1>2. ASSUME NEW r \in Roles, Release(r) PROVE Watched'
  BY <1>2 DEF Release
<1>3. ASSUME NEW r \in Roles, CallTest(r) PROVE Watched'
  BY <1>3 DEF CallTest
<1>4. ASSUME NEW r \in Roles, NEW s \in Sends, SendFile(r, s) PROVE Watched'
  BY <1>4 DEF SendFile
<1>5. CASE HangUp
  BY <1>5 DEF HangUp, GuiEnter
<1>5u. CASE HungUp
  BY <1>5u DEF HungUp, GuiReturns
<1>6. CASE Reset
  BY <1>6 DEF Reset, SetPointer
<1>7. CASE Call
  BY <1>7 DEF Call, GuiEnter
<1>7d. CASE Called
  BY <1>7d DEF Called, GuiReturns
<1>8. CASE ToggleAuto
  BY <1>8 DEF ToggleAuto
<1>9. CASE Quit
  BY <1>9 DEF Quit
<1>10. ASSUME NEW t \in Tries, Create(t) PROVE Watched'
  BY <1>10 DEF Create, SetPointer
<1>11. ASSUME NEW t \in Tries, Begin(t) PROVE Watched'
  BY <1>11 DEF Begin, Enter
<1>12. ASSUME NEW t \in Tries, Connected(t) PROVE Watched'
  BY <1>12 DEF Connected
<1>13. ASSUME NEW t \in Tries, ConnectFails(t) PROVE Watched'
  BY <1>13 DEF ConnectFails
<1>14. ASSUME NEW t \in Tries, Discard(t) PROVE Watched'
  BY <1>14 DEF Discard, SetPointer
<1>15. ASSUME NEW t \in Tries, SetFlag(t) PROVE Watched'
  BY <1>15 DEF SetFlag
<1>16. ASSUME NEW t \in Tries, Request(t) PROVE Watched'
  BY <1>16 DEF Request, Enter
<1>16d. ASSUME NEW t \in Tries, Requested(t) PROVE Watched'
  BY <1>16d DEF Requested
<1>17. ASSUME NEW t \in Tries, PollTest(t) PROVE Watched'
  BY <1>17 DEF PollTest
<1>18. ASSUME NEW t \in Tries, PollDeref(t) PROVE Watched'
  BY <1>18 DEF PollDeref, Enter
<1>18s. ASSUME NEW t \in Tries, RefreshSkips(t) PROVE Watched'
  BY <1>18s DEF RefreshSkips
<1>18d. ASSUME NEW t \in Tries, Polled(t) PROVE Watched'
  BY <1>18d DEF Polled
<1>19. ASSUME NEW t \in Tries, ClearFlag(t) PROVE Watched'
  BY <1>19 DEF ClearFlag
<1>20. ASSUME NEW t \in Tries, RetryTest(t) PROVE Watched'
  BY <1>20 DEF RetryTest
<1>21. ASSUME NEW t \in Tries, SpawnLoop(t) PROVE Watched'
  BY <1>21 DEF SpawnLoop
<1>22. ASSUME NEW t \in Tries, LoopTest(t) PROVE Watched'
  BY <1>22 DEF LoopTest
<1>23. ASSUME NEW t \in Tries, LoopWakes(t) PROVE Watched'
  BY <1>23 DEF LoopWakes
<1>24. ASSUME NEW t \in Tries, LoopConnects(t) PROVE Watched'
  BY <1>24 DEF LoopConnects, PassTests, MayStart
<1>25. ASSUME NEW t \in Tries, LoopWaited(t) PROVE Watched'
  BY <1>25 DEF LoopWaited
<1>26. ASSUME NEW t \in Tries, SessionDrops(t) PROVE Watched'
  BY <1>26 DEF SessionDrops
<1>27. ASSUME NEW s \in Sends, SenderBegins(s) PROVE Watched'
  BY <1>27 DEF SenderBegins
<1>28. ASSUME NEW s \in Sends, SenderEnds(s) PROVE Watched'
  BY <1>28 DEF SenderEnds
<1>29. CASE UNCHANGED vars
  BY <1>29 DEF vars
<1> QED BY <1>1, <1>2, <1>3, <1>4, <1>5, <1>5u, <1>6, <1>7, <1>7d, <1>8, <1>9, <1>10, <1>11, <1>12,
           <1>13, <1>14, <1>15, <1>16, <1>16d, <1>17, <1>18, <1>18s, <1>18d, <1>19, <1>20, <1>21, <1>22, <1>23,
           <1>24, <1>25, <1>26, <1>27, <1>28, <1>29 DEF Next, Step, Gui, Worker, Loop


-----------------------------------------------------------------------------
(* Why nothing in use is freed.  As long as no attempts overlap and the user   *)
(* has released nothing, every watching worker belongs to the flag and to the  *)
(* pointer of its role, and file threads and calls of the client are inside an *)
(* object that was opened.  A pointer is replaced only by an unsettled try:    *)
(* both flags are down then, so nobody watches, and what the pointer holds is  *)
(* new, or down and so ends the program by its joinable thread.                *)

Calm == ~overlapped /\ ~released /\ fault = "none"

Watching == {"request", "requesting", "test", "deref", "polling", "ended"}

Opened(r) == ptr[r] # 0 /\ obj[ptr[r]] \in {"up", "down"}

PtrRole == \A r \in Roles : ptr[r] # 0 => role[ptr[r]] = r /\ worker[ptr[r]] # "none"

Settled == Calm =>
    /\ ~Releasing
    /\ \A t \in Tries : worker[t] \in Watching => flag[role[t]] /\ ptr[role[t]] = t
    /\ \A t \in Tries : worker[t] \in {"requesting", "polling"} => at[t] = t
    /\ \A t \in Tries : worker[t] = "ended" => role[t] = "client" /\ obj[t] = "down"
    /\ \A r \in Roles : ptr[r] # 0 /\ obj[ptr[r]] = "up" => flag[r] \/ worker[ptr[r]] = "won"

Held == Calm =>
    /\ \A s \in Sends : sender[s] \in {"begin", "sending"} => Opened(senderRole[s])
    /\ \A s \in Sends : sender[s] = "sending" => senderAt[s] = ptr[senderRole[s]]
    /\ gui \in {"call", "calling"} /\ guiRole = "client" => Opened("client")
    /\ gui = "calling" /\ guiRole = "client" => guiAt = ptr["client"]
    /\ \A t \in Tries : worker[t] = "create" /\ caller[t] = 0 => gui = "create"

(* A pointer holds an object of its role whose worker has been created. *)
LEMMA PtrRoleNext == TypeOK /\ PtrRole /\ [Next]_vars => PtrRole'
<1> SUFFICES ASSUME TypeOK, PtrRole, [Next]_vars PROVE PtrRole'
  OBVIOUS
<1> USE AppAssumption DEF pointers, calls, window, senders, threads, history, settings,
                          WorkerGoto, LoopGoto, PtrRole, TypeOK, Roles, Tries
<1>1. ASSUME NEW r \in Roles, Press(r) PROVE PtrRole'
  BY <1>1 DEF Press, PassTests, MayStart
<1>2. ASSUME NEW r \in Roles, Release(r) PROVE PtrRole'
  BY <1>2 DEF Release
<1>3. ASSUME NEW r \in Roles, CallTest(r) PROVE PtrRole'
  BY <1>3 DEF CallTest
<1>4. ASSUME NEW r \in Roles, NEW s \in Sends, SendFile(r, s) PROVE PtrRole'
  BY <1>4 DEF SendFile
<1>5. CASE HangUp
  BY <1>5 DEF HangUp, GuiEnter
<1>5u. CASE HungUp
  BY <1>5u DEF HungUp, GuiReturns
<1>6. CASE Reset
  BY <1>6 DEF Reset, SetPointer
<1>7. CASE Call
  BY <1>7 DEF Call, GuiEnter
<1>7d. CASE Called
  BY <1>7d DEF Called, GuiReturns
<1>8. CASE ToggleAuto
  BY <1>8 DEF ToggleAuto
<1>9. CASE Quit
  BY <1>9 DEF Quit
<1>10. ASSUME NEW t \in Tries, Create(t) PROVE PtrRole'
  BY <1>10 DEF Create, SetPointer
<1>11. ASSUME NEW t \in Tries, Begin(t) PROVE PtrRole'
  BY <1>11 DEF Begin, Enter
<1>12. ASSUME NEW t \in Tries, Connected(t) PROVE PtrRole'
  BY <1>12 DEF Connected
<1>13. ASSUME NEW t \in Tries, ConnectFails(t) PROVE PtrRole'
  BY <1>13 DEF ConnectFails
<1>14. ASSUME NEW t \in Tries, Discard(t) PROVE PtrRole'
  BY <1>14 DEF Discard, SetPointer
<1>15. ASSUME NEW t \in Tries, SetFlag(t) PROVE PtrRole'
  BY <1>15 DEF SetFlag
<1>16. ASSUME NEW t \in Tries, Request(t) PROVE PtrRole'
  BY <1>16 DEF Request, Enter
<1>16d. ASSUME NEW t \in Tries, Requested(t) PROVE PtrRole'
  BY <1>16d DEF Requested
<1>17. ASSUME NEW t \in Tries, PollTest(t) PROVE PtrRole'
  BY <1>17 DEF PollTest
<1>18. ASSUME NEW t \in Tries, PollDeref(t) PROVE PtrRole'
  BY <1>18 DEF PollDeref, Enter
<1>18s. ASSUME NEW t \in Tries, RefreshSkips(t) PROVE PtrRole'
  BY <1>18s DEF RefreshSkips
<1>18d. ASSUME NEW t \in Tries, Polled(t) PROVE PtrRole'
  BY <1>18d DEF Polled
<1>19. ASSUME NEW t \in Tries, ClearFlag(t) PROVE PtrRole'
  BY <1>19 DEF ClearFlag
<1>20. ASSUME NEW t \in Tries, RetryTest(t) PROVE PtrRole'
  BY <1>20 DEF RetryTest
<1>21. ASSUME NEW t \in Tries, SpawnLoop(t) PROVE PtrRole'
  BY <1>21 DEF SpawnLoop
<1>22. ASSUME NEW t \in Tries, LoopTest(t) PROVE PtrRole'
  BY <1>22 DEF LoopTest
<1>23. ASSUME NEW t \in Tries, LoopWakes(t) PROVE PtrRole'
  BY <1>23 DEF LoopWakes
<1>24. ASSUME NEW t \in Tries, LoopConnects(t) PROVE PtrRole'
  BY <1>24 DEF LoopConnects, PassTests, MayStart
<1>25. ASSUME NEW t \in Tries, LoopWaited(t) PROVE PtrRole'
  BY <1>25 DEF LoopWaited
<1>26. ASSUME NEW t \in Tries, SessionDrops(t) PROVE PtrRole'
  BY <1>26 DEF SessionDrops
<1>27. ASSUME NEW s \in Sends, SenderBegins(s) PROVE PtrRole'
  BY <1>27 DEF SenderBegins
<1>28. ASSUME NEW s \in Sends, SenderEnds(s) PROVE PtrRole'
  BY <1>28 DEF SenderEnds
<1>29. CASE UNCHANGED vars
  BY <1>29 DEF vars
<1> QED BY <1>1, <1>2, <1>3, <1>4, <1>5, <1>5u, <1>6, <1>7, <1>7d, <1>8, <1>9, <1>10, <1>11, <1>12,
           <1>13, <1>14, <1>15, <1>16, <1>16d, <1>17, <1>18, <1>18s, <1>18d, <1>19, <1>20, <1>21, <1>22, <1>23,
           <1>24, <1>25, <1>26, <1>27, <1>28, <1>29 DEF Next, Step, Gui, Worker, Loop

(* What the workers keep, as long as nothing disturbs them. *)
LEMMA SettledNext ==
  TypeOK /\ Drops /\ Single /\ Own /\ FlagsTruthful /\ PtrRole /\ Settled
      /\ Running /\ [Next]_vars => Settled'
<1> SUFFICES ASSUME TypeOK, Drops, Single, Own, FlagsTruthful, PtrRole, Settled, Running, [Next]_vars
             PROVE Settled'
  OBVIOUS
<1> USE AppAssumption DEF pointers, calls, window, senders, threads, history, settings,
                          WorkerGoto, LoopGoto, Settled, Running, Calm, Watching, Single, Own, Unsettled,
                          Releasing, FlagsTruthful, PtrRole, TypeOK, Roles
<1>1. ASSUME NEW r \in Roles, Press(r) PROVE Settled'
  BY <1>1 DEF Press, PassTests, MayStart
<1>2. ASSUME NEW r \in Roles, Release(r) PROVE Settled'
  BY <1>2 DEF Release
<1>3. ASSUME NEW r \in Roles, CallTest(r) PROVE Settled'
  BY <1>3 DEF CallTest
<1>4. ASSUME NEW r \in Roles, NEW s \in Sends, SendFile(r, s) PROVE Settled'
  BY <1>4 DEF SendFile
<1>5. CASE HangUp
  BY <1>5 DEF HangUp, GuiEnter
<1>5u. CASE HungUp
  BY <1>5u DEF HungUp, GuiReturns
<1>6. CASE Reset
  <2>1. gui = "release" /\ UNCHANGED <<overlapped, released>>
    BY <1>6 DEF Reset
  <2> QED BY <2>1
<1>7. CASE Call
  BY <1>7 DEF Call, GuiEnter
<1>7d. CASE Called
  BY <1>7d DEF Called, GuiReturns
<1>8. CASE ToggleAuto
  BY <1>8 DEF ToggleAuto
<1>9. CASE Quit
  <2>1. UNCHANGED <<ptr, obj, flag, worker, at, role, caller, gui, guiRole, guiAt, sender, senderRole, senderAt,
                    overlapped, released>>
    BY <1>9 DEF Quit
  <2> HIDE DEF pointers, threads, calls, window, senders, history, settings
  <2> QED BY <2>1
<1>10. ASSUME NEW t \in Tries, Create(t) PROVE Settled'
  <2> SUFFICES ASSUME Calm' PROVE Settled'
    OBVIOUS
  <2>1. Calm /\ UNCHANGED <<flag, role, at, overlapped>>
    BY <1>10 DEF Create
  <2>2. worker[t] = "create" /\ Unsettled(t)
    BY <1>10 DEF Create
  <2>3. /\ \A r \in Roles : ~flag[r]
        /\ \A u \in Tries : Unsettled(u) => u = t
        /\ ~Releasing
    BY <2>1, <2>2
  <2>4. \A u \in Tries : worker'[u] \in {worker[u], "begin"} /\ worker[u] \notin Watching
    BY <1>10, <2>1, <2>3 DEF Create
  <2>5. \A u \in Tries : worker'[u] \notin Watching
    BY <2>4
  <2>6. \A r \in Roles : ~(ptr'[r] # 0 /\ obj'[ptr'[r]] = "up")
    <3> SUFFICES ASSUME NEW r \in Roles, ptr'[r] # 0, obj'[ptr'[r]] = "up" PROVE FALSE
      OBVIOUS
    <3>1. ptr'[r] = ptr[r] /\ obj[ptr[r]] = "up" /\ ptr[r] \in Tries
      BY <1>10, <2>2 DEF Create, SetPointer, Tries
    <3>2. worker[ptr[r]] = "won"
      BY <2>1, <2>3, <3>1 DEF Tries
    <3> QED BY <2>2, <2>3, <3>1, <3>2
  <2>7. ~Releasing'
    BY <1>10, <2>3 DEF Create
  <2> QED BY <2>5, <2>6, <2>7
<1>11. ASSUME NEW t \in Tries, Begin(t) PROVE Settled'
  <2> SUFFICES ASSUME Calm' PROVE Settled'
    OBVIOUS
  <2>1. Calm /\ worker[t] = "begin" /\ UNCHANGED <<flag, role, ptr, obj, gui>>
    BY <1>11 DEF Begin
  <2>2. worker' = [worker EXCEPT ![t] = "connecting"] /\ at' = [at EXCEPT ![t] = ptr[role[t]]]
    BY <1>11, <2>1 DEF Begin, Enter
  <2>3. \A u \in Tries : worker'[u] \in Watching => flag'[role'[u]] /\ ptr'[role'[u]] = u
    BY <2>1, <2>2
  <2>4. \A u \in Tries : worker'[u] \in {"requesting", "polling"} => at'[u] = u
    BY <2>1, <2>2
  <2>5. \A u \in Tries : worker'[u] = "ended" => role'[u] = "client" /\ obj'[u] = "down"
    BY <2>1, <2>2
  <2>6. \A r \in Roles : ptr'[r] # 0 /\ obj'[ptr'[r]] = "up" => flag'[r] \/ worker'[ptr'[r]] = "won"
    <3> SUFFICES ASSUME NEW r \in Roles, ptr[r] # 0, obj[ptr[r]] = "up"
                 PROVE  flag[r] \/ worker'[ptr[r]] = "won"
      BY <2>1
    <3>1. flag[r] \/ worker[ptr[r]] = "won"
      BY <2>1
    <3>2. ptr[r] \in Tries
      BY DEF Tries
    <3> QED BY <2>1, <2>2, <3>1, <3>2
  <2> QED BY <2>1, <2>3, <2>4, <2>5, <2>6
<1>12. ASSUME NEW t \in Tries, Connected(t) PROVE Settled'
  <2> SUFFICES ASSUME Calm' PROVE Settled'
    OBVIOUS
  <2>1. Calm /\ worker[t] = "connecting" /\ UNCHANGED <<flag, role, ptr, at, gui>>
    BY <1>12 DEF Connected
  <2>2. worker' = [worker EXCEPT ![t] = "won"] /\ at[t] = t /\ obj' = [obj EXCEPT ![t] = "up"]
    BY <1>12, <2>1 DEF Connected
  <2>3. \A u \in Tries : worker[u] \notin Watching
    BY <2>1
  <2>4. \A u \in Tries : worker'[u] \notin Watching
    BY <2>2, <2>3
  <2>5. \A r \in Roles : ptr'[r] # 0 /\ obj'[ptr'[r]] = "up" => flag'[r] \/ worker'[ptr'[r]] = "won"
    <3> SUFFICES ASSUME NEW r \in Roles, ptr[r] # 0, obj'[ptr[r]] = "up", ptr[r] # t
                 PROVE  flag[r] \/ worker'[ptr[r]] = "won"
      BY <2>1, <2>2
    <3>1. obj[ptr[r]] = "up" /\ ptr[r] \in Tries
      BY <2>2 DEF Tries
    <3>2. flag[r] \/ worker[ptr[r]] = "won"
      BY <2>1, <3>1
    <3> QED BY <2>2, <3>1, <3>2
  <2> QED BY <2>1, <2>4, <2>5
<1>13. ASSUME NEW t \in Tries, ConnectFails(t) PROVE Settled'
  BY <1>13 DEF ConnectFails
<1>14. ASSUME NEW t \in Tries, Discard(t) PROVE Settled'
  <2> SUFFICES ASSUME Calm' PROVE Settled'
    OBVIOUS
  <2>1. Calm /\ UNCHANGED <<flag, role, at, overlapped>>
    BY <1>14 DEF Discard
  <2>2. worker[t] = "lost" /\ Unsettled(t)
    BY <1>14 DEF Discard
  <2>3. /\ \A r \in Roles : ~flag[r]
        /\ \A u \in Tries : Unsettled(u) => u = t
        /\ ~Releasing
    BY <2>1, <2>2
  <2>4. \A u \in Tries : worker'[u] \in {worker[u], "done"} /\ worker[u] \notin Watching
    BY <1>14, <2>1, <2>3 DEF Discard
  <2>5. \A u \in Tries : worker'[u] \notin Watching
    BY <2>4
  <2>6. \A r \in Roles : ~(ptr'[r] # 0 /\ obj'[ptr'[r]] = "up")
    <3> SUFFICES ASSUME NEW r \in Roles, ptr'[r] # 0, obj'[ptr'[r]] = "up" PROVE FALSE
      OBVIOUS
    <3>1. ptr'[r] = ptr[r] /\ obj[ptr[r]] = "up" /\ ptr[r] \in Tries
      BY <1>14, <2>2 DEF Discard, SetPointer, Tries
    <3>2. worker[ptr[r]] = "won"
      BY <2>1, <2>3, <3>1 DEF Tries
    <3> QED BY <2>2, <2>3, <3>1, <3>2
  <2>7. ~Releasing'
    BY <1>14, <2>3 DEF Discard
  <2> QED BY <2>5, <2>6, <2>7
<1>15. ASSUME NEW t \in Tries, SetFlag(t) PROVE Settled'
  BY <1>15 DEF SetFlag
<1>16. ASSUME NEW t \in Tries, Request(t) PROVE Settled'
  <2> SUFFICES ASSUME Calm' PROVE Settled'
    OBVIOUS
  <2>1. Calm /\ worker[t] = "request" /\ UNCHANGED <<flag, role, ptr, obj, gui>>
    BY <1>16 DEF Request
  <2>2. worker' = [worker EXCEPT ![t] = "requesting"] /\ at' = [at EXCEPT ![t] = ptr[role[t]]]
    BY <1>16, <2>1 DEF Request, Enter
  <2>3. \A u \in Tries : worker'[u] \in Watching => flag'[role'[u]] /\ ptr'[role'[u]] = u
    BY <2>1, <2>2
  <2>4. \A u \in Tries : worker'[u] \in {"requesting", "polling"} => at'[u] = u
    BY <2>1, <2>2
  <2>5. \A u \in Tries : worker'[u] = "ended" => role'[u] = "client" /\ obj'[u] = "down"
    BY <2>1, <2>2
  <2>6. \A r \in Roles : ptr'[r] # 0 /\ obj'[ptr'[r]] = "up" => flag'[r] \/ worker'[ptr'[r]] = "won"
    <3> SUFFICES ASSUME NEW r \in Roles, ptr[r] # 0, obj[ptr[r]] = "up"
                 PROVE  flag[r] \/ worker'[ptr[r]] = "won"
      BY <2>1
    <3>1. flag[r] \/ worker[ptr[r]] = "won"
      BY <2>1
    <3>2. ptr[r] \in Tries
      BY DEF Tries
    <3> QED BY <2>1, <2>2, <3>1, <3>2
  <2> QED BY <2>1, <2>3, <2>4, <2>5, <2>6
<1>16d. ASSUME NEW t \in Tries, Requested(t) PROVE Settled'
  BY <1>16d DEF Requested
<1>17. ASSUME NEW t \in Tries, PollTest(t) PROVE Settled'
  BY <1>17 DEF PollTest
<1>18. ASSUME NEW t \in Tries, PollDeref(t) PROVE Settled'
  <2> SUFFICES ASSUME Calm' PROVE Settled'
    OBVIOUS
  <2>1. Calm /\ worker[t] = "deref" /\ UNCHANGED <<flag, role, ptr, obj, gui>>
    BY <1>18 DEF PollDeref
  <2>2. worker' = [worker EXCEPT ![t] = "polling"] /\ at' = [at EXCEPT ![t] = ptr[role[t]]]
    BY <1>18, <2>1 DEF PollDeref, Enter
  <2>3. \A u \in Tries : worker'[u] \in Watching => flag'[role'[u]] /\ ptr'[role'[u]] = u
    BY <2>1, <2>2
  <2>4. \A u \in Tries : worker'[u] \in {"requesting", "polling"} => at'[u] = u
    BY <2>1, <2>2
  <2>5. \A u \in Tries : worker'[u] = "ended" => role'[u] = "client" /\ obj'[u] = "down"
    BY <2>1, <2>2
  <2>6. \A r \in Roles : ptr'[r] # 0 /\ obj'[ptr'[r]] = "up" => flag'[r] \/ worker'[ptr'[r]] = "won"
    <3> SUFFICES ASSUME NEW r \in Roles, ptr[r] # 0, obj[ptr[r]] = "up"
                 PROVE  flag[r] \/ worker'[ptr[r]] = "won"
      BY <2>1
    <3>1. flag[r] \/ worker[ptr[r]] = "won"
      BY <2>1
    <3>2. ptr[r] \in Tries
      BY DEF Tries
    <3> QED BY <2>1, <2>2, <3>1, <3>2
  <2> QED BY <2>1, <2>3, <2>4, <2>5, <2>6
<1>18s. ASSUME NEW t \in Tries, RefreshSkips(t) PROVE Settled'
  BY <1>18s DEF RefreshSkips
<1>18d. ASSUME NEW t \in Tries, Polled(t) PROVE Settled'
  <2> SUFFICES ASSUME Calm' PROVE Settled'
    OBVIOUS
  <2>1. Calm /\ worker[t] = "polling" /\ UNCHANGED <<flag, role, ptr, obj, at, gui>>
    BY <1>18d DEF Polled
  <2>2. PICK pc \in {"ended", "test", "request"} : worker' = [worker EXCEPT ![t] = pc]
    BY <1>18d DEF Polled
  <2>3. at[t] = t /\ ptr[role[t]] = t /\ flag[role[t]] /\ role[t] \in Roles
    BY <2>1
  <2>4. obj[t] \in {"up", "down"}
    BY <2>1, <2>3
  <2>5. pc = "ended" => role[t] = "client" /\ obj[t] = "down"
    BY <1>18d, <2>2, <2>3, <2>4 DEF Polled
  <2>6. \A u \in Tries : worker'[u] \in Watching => flag'[role'[u]] /\ ptr'[role'[u]] = u
    BY <2>1, <2>2, <2>3
  <2>7. \A u \in Tries : worker'[u] \in {"requesting", "polling"} => at'[u] = u
    BY <2>1, <2>2
  <2>8. \A u \in Tries : worker'[u] = "ended" => role'[u] = "client" /\ obj'[u] = "down"
    BY <2>1, <2>2, <2>5
  <2>9. \A r \in Roles : ptr'[r] # 0 /\ obj'[ptr'[r]] = "up" => flag'[r] \/ worker'[ptr'[r]] = "won"
    <3> SUFFICES ASSUME NEW r \in Roles, ptr[r] # 0, obj[ptr[r]] = "up"
                 PROVE  flag[r] \/ worker'[ptr[r]] = "won"
      BY <2>1
    <3>1. flag[r] \/ worker[ptr[r]] = "won"
      BY <2>1
    <3>2. ptr[r] \in Tries
      BY DEF Tries
    <3> QED BY <2>1, <2>2, <3>1, <3>2
  <2> QED BY <2>1, <2>6, <2>7, <2>8, <2>9
<1>19. ASSUME NEW t \in Tries, ClearFlag(t) PROVE Settled'
  BY <1>19 DEF ClearFlag
<1>20. ASSUME NEW t \in Tries, RetryTest(t) PROVE Settled'
  BY <1>20 DEF RetryTest
<1>21. ASSUME NEW t \in Tries, SpawnLoop(t) PROVE Settled'
  BY <1>21 DEF SpawnLoop
<1>22. ASSUME NEW t \in Tries, LoopTest(t) PROVE Settled'
  BY <1>22 DEF LoopTest
<1>23. ASSUME NEW t \in Tries, LoopWakes(t) PROVE Settled'
  BY <1>23 DEF LoopWakes
<1>24. ASSUME NEW t \in Tries, LoopConnects(t) PROVE Settled'
  BY <1>24 DEF LoopConnects, PassTests, MayStart
<1>25. ASSUME NEW t \in Tries, LoopWaited(t) PROVE Settled'
  BY <1>25 DEF LoopWaited
<1>26. ASSUME NEW t \in Tries, SessionDrops(t) PROVE Settled'
  BY <1>26 DEF SessionDrops
<1>27. ASSUME NEW s \in Sends, SenderBegins(s) PROVE Settled'
  BY <1>27 DEF SenderBegins
<1>28. ASSUME NEW s \in Sends, SenderEnds(s) PROVE Settled'
  BY <1>28 DEF SenderEnds
<1>29. CASE UNCHANGED vars
  BY <1>29 DEF vars
<1> QED BY <1>1, <1>2, <1>3, <1>4, <1>5, <1>5u, <1>6, <1>7, <1>7d, <1>8, <1>9, <1>10, <1>11, <1>12,
           <1>13, <1>14, <1>15, <1>16, <1>16d, <1>17, <1>18, <1>18s, <1>18d, <1>19, <1>20, <1>21, <1>22, <1>23,
           <1>24, <1>25, <1>26, <1>27, <1>28, <1>29 DEF Next, Step, Gui, Worker, Loop

(* What file threads and the GUI keep, as long as nothing disturbs them. *)
LEMMA HeldNext ==
  TypeOK /\ Single /\ Own /\ FlagsTruthful /\ PtrRole /\ Settled /\ Held
      /\ Running /\ [Next]_vars => Held'
<1> SUFFICES ASSUME TypeOK, Single, Own, FlagsTruthful, PtrRole, Settled, Held, Running, [Next]_vars
             PROVE Held'
  OBVIOUS
<1> USE AppAssumption DEF pointers, calls, window, senders, threads, history, settings,
                          WorkerGoto, LoopGoto, Held, Running, Calm, Opened, Single, Own, Unsettled, Settled,
                          Releasing, FlagsTruthful, PtrRole, TypeOK, Roles
<1>1. ASSUME NEW r \in Roles, Press(r) PROVE Held'
  BY <1>1 DEF Press, PassTests, MayStart
<1>2. ASSUME NEW r \in Roles, Release(r) PROVE Held'
  BY <1>2 DEF Release
<1>3. ASSUME NEW r \in Roles, CallTest(r) PROVE Held'
  BY <1>3 DEF CallTest
<1>4. ASSUME NEW r \in Roles, NEW s \in Sends, SendFile(r, s) PROVE Held'
  BY <1>4 DEF SendFile
<1>5. CASE HangUp
  BY <1>5 DEF HangUp, GuiEnter
<1>5u. CASE HungUp
  BY <1>5u DEF HungUp, GuiReturns
<1>6. CASE Reset
  <2>1. gui = "release" /\ UNCHANGED <<overlapped, released>>
    BY <1>6 DEF Reset
  <2> QED BY <2>1
<1>7. CASE Call
  BY <1>7 DEF Call, GuiEnter
<1>7d. CASE Called
  BY <1>7d DEF Called, GuiReturns
<1>8. CASE ToggleAuto
  BY <1>8 DEF ToggleAuto
<1>9. CASE Quit
  <2>1. UNCHANGED <<ptr, obj, flag, worker, at, role, caller, gui, guiRole, guiAt, sender, senderRole, senderAt,
                    overlapped, released>>
    BY <1>9 DEF Quit
  <2> HIDE DEF pointers, threads, calls, window, senders, history, settings
  <2> QED BY <2>1
<1>10. ASSUME NEW t \in Tries, Create(t) PROVE Held'
  <2> SUFFICES ASSUME Calm' PROVE Held'
    OBVIOUS
  <2>1. /\ Calm /\ worker[t] = "create" /\ Unsettled(t)
        /\ UNCHANGED <<role, caller, guiRole, guiAt, sender, senderRole, senderAt>>
    BY <1>10 DEF Create
  <2>2. /\ \A r \in Roles : ~flag[r]
        /\ \A u \in Tries : Unsettled(u) => u = t
    BY <2>1
  <2>3. worker' = [worker EXCEPT ![t] = "begin"] /\ SetPointer(role[t], t)
    BY <1>10 DEF Create
  <2>4. ptr[role[t]] # 0 => obj[ptr[role[t]]] # "down"
    BY <2>1, <2>3 DEF SetPointer, DestroyFault
  <2>5. \A r \in Roles : ptr[r] # 0 => obj[ptr[r]] # "up"
    <3> SUFFICES ASSUME NEW r \in Roles, ptr[r] # 0, obj[ptr[r]] = "up" PROVE FALSE
      OBVIOUS
    <3>1. worker[ptr[r]] = "won" /\ ptr[r] \in Tries
      BY <2>1, <2>2 DEF Tries
    <3> QED BY <2>1, <2>2, <3>1
  <2>6. ~Opened(role[t])
    BY <2>4, <2>5
  <2>7. \A r \in Roles : Opened(r) => ptr'[r] = ptr[r] /\ Opened(r)'
    <3> SUFFICES ASSUME NEW r \in Roles, Opened(r) PROVE ptr'[r] = ptr[r] /\ Opened(r)'
      OBVIOUS
    <3>1. r # role[t] /\ ptr[r] \in Tries
      BY <2>6 DEF Tries
    <3>2. ptr[r] # t /\ ptr[r] # ptr[role[t]]
      BY <2>1, <2>2, <3>1 DEF Tries
    <3>3. ptr'[r] = ptr[r] /\ obj'[ptr[r]] = obj[ptr[r]]
      BY <2>3, <3>1, <3>2 DEF SetPointer
    <3> QED BY <3>3
  <2>8. gui' \in {gui, "idle"}
    BY <1>10 DEF Create
  <2>9. \A u \in Tries : ~(worker'[u] = "create" /\ caller'[u] = 0)
    BY <2>1, <2>2, <2>3
  <2> QED BY <2>1, <2>7, <2>8, <2>9
<1>11. ASSUME NEW t \in Tries, Begin(t) PROVE Held'
  BY <1>11 DEF Begin, Enter
<1>12. ASSUME NEW t \in Tries, Connected(t) PROVE Held'
  <2> SUFFICES ASSUME Calm' PROVE Held'
    OBVIOUS
  <2>1. /\ Calm /\ worker[t] = "connecting"
        /\ UNCHANGED <<role, caller, ptr, window, senders>>
    BY <1>12 DEF Connected
  <2>2. worker' = [worker EXCEPT ![t] = "won"] /\ obj' = [obj EXCEPT ![at[t]] = "up"]
    BY <1>12, <2>1 DEF Connected
  <2>3. \A r \in Roles : Opened(r) => Opened(r)'
    <3> SUFFICES ASSUME NEW r \in Roles, Opened(r) PROVE Opened(r)'
      OBVIOUS
    <3>1. ptr[r] \in Tries
      BY DEF Tries
    <3> QED BY <2>1, <2>2, <3>1
  <2>4. \A u \in Tries : worker'[u] = "create" => worker[u] = "create"
    BY <2>2
  <2> QED BY <2>1, <2>3, <2>4
<1>13. ASSUME NEW t \in Tries, ConnectFails(t) PROVE Held'
  BY <1>13 DEF ConnectFails
<1>14. ASSUME NEW t \in Tries, Discard(t) PROVE Held'
  <2> SUFFICES ASSUME Calm' PROVE Held'
    OBVIOUS
  <2>1. /\ Calm /\ worker[t] = "lost" /\ Unsettled(t)
        /\ UNCHANGED <<role, caller, guiRole, guiAt, sender, senderRole, senderAt>>
    BY <1>14 DEF Discard
  <2>2. /\ \A r \in Roles : ~flag[r]
        /\ \A u \in Tries : Unsettled(u) => u = t
    BY <2>1
  <2>3. worker' = [worker EXCEPT ![t] = "done"] /\ SetPointer(role[t], 0)
    BY <1>14 DEF Discard
  <2>4. ptr[role[t]] # 0 => obj[ptr[role[t]]] # "down"
    BY <2>1, <2>3 DEF SetPointer, DestroyFault
  <2>5. \A r \in Roles : ptr[r] # 0 => obj[ptr[r]] # "up"
    <3> SUFFICES ASSUME NEW r \in Roles, ptr[r] # 0, obj[ptr[r]] = "up" PROVE FALSE
      OBVIOUS
    <3>1. worker[ptr[r]] = "won" /\ ptr[r] \in Tries
      BY <2>1, <2>2 DEF Tries
    <3> QED BY <2>1, <2>2, <3>1
  <2>6. ~Opened(role[t])
    BY <2>4, <2>5
  <2>7. \A r \in Roles : Opened(r) => ptr'[r] = ptr[r] /\ Opened(r)'
    <3> SUFFICES ASSUME NEW r \in Roles, Opened(r) PROVE ptr'[r] = ptr[r] /\ Opened(r)'
      OBVIOUS
    <3>1. r # role[t] /\ ptr[r] \in Tries
      BY <2>6 DEF Tries
    <3>2. ptr[r] # t /\ ptr[r] # ptr[role[t]]
      BY <2>1, <2>2, <3>1 DEF Tries
    <3>3. ptr'[r] = ptr[r] /\ obj'[ptr[r]] = obj[ptr[r]]
      BY <2>3, <3>1, <3>2 DEF SetPointer
    <3> QED BY <3>3
  <2>8. gui' \in {gui, "idle"}
    BY <1>14 DEF Discard
  <2>9. \A u \in Tries : ~(worker'[u] = "create" /\ caller'[u] = 0)
    BY <2>1, <2>2, <2>3
  <2> QED BY <2>1, <2>7, <2>8, <2>9
<1>15. ASSUME NEW t \in Tries, SetFlag(t) PROVE Held'
  BY <1>15 DEF SetFlag
<1>16. ASSUME NEW t \in Tries, Request(t) PROVE Held'
  BY <1>16 DEF Request, Enter
<1>16d. ASSUME NEW t \in Tries, Requested(t) PROVE Held'
  BY <1>16d DEF Requested
<1>17. ASSUME NEW t \in Tries, PollTest(t) PROVE Held'
  BY <1>17 DEF PollTest
<1>18. ASSUME NEW t \in Tries, PollDeref(t) PROVE Held'
  BY <1>18 DEF PollDeref, Enter
<1>18s. ASSUME NEW t \in Tries, RefreshSkips(t) PROVE Held'
  BY <1>18s DEF RefreshSkips
<1>18d. ASSUME NEW t \in Tries, Polled(t) PROVE Held'
  BY <1>18d DEF Polled
<1>19. ASSUME NEW t \in Tries, ClearFlag(t) PROVE Held'
  BY <1>19 DEF ClearFlag
<1>20. ASSUME NEW t \in Tries, RetryTest(t) PROVE Held'
  BY <1>20 DEF RetryTest
<1>21. ASSUME NEW t \in Tries, SpawnLoop(t) PROVE Held'
  BY <1>21 DEF SpawnLoop
<1>22. ASSUME NEW t \in Tries, LoopTest(t) PROVE Held'
  BY <1>22 DEF LoopTest
<1>23. ASSUME NEW t \in Tries, LoopWakes(t) PROVE Held'
  BY <1>23 DEF LoopWakes
<1>24. ASSUME NEW t \in Tries, LoopConnects(t) PROVE Held'
  <2> SUFFICES ASSUME Calm' PROVE Held'
    OBVIOUS
  <2>1. Calm /\ PassTests("client", t) /\ UNCHANGED <<ptr, obj, window, senders>>
    BY <1>24 DEF LoopConnects, PassTests
  <2>2. tries + 1 \in Tries /\ t # 0
    BY <2>1 DEF PassTests, Tries
  <2>3. \A u \in Tries : worker'[u] = "create" /\ caller'[u] = 0 => worker[u] = "create" /\ caller[u] = 0
    BY <2>1, <2>2 DEF PassTests
  <2> QED BY <2>1, <2>3
<1>25. ASSUME NEW t \in Tries, LoopWaited(t) PROVE Held'
  BY <1>25 DEF LoopWaited
<1>26. ASSUME NEW t \in Tries, SessionDrops(t) PROVE Held'
  BY <1>26 DEF SessionDrops
<1>27. ASSUME NEW s \in Sends, SenderBegins(s) PROVE Held'
  BY <1>27 DEF SenderBegins
<1>28. ASSUME NEW s \in Sends, SenderEnds(s) PROVE Held'
  BY <1>28 DEF SenderEnds
<1>29. CASE UNCHANGED vars
  BY <1>29 DEF vars
<1> QED BY <1>1, <1>2, <1>3, <1>4, <1>5, <1>5u, <1>6, <1>7, <1>7d, <1>8, <1>9, <1>10, <1>11, <1>12,
           <1>13, <1>14, <1>15, <1>16, <1>16d, <1>17, <1>18, <1>18s, <1>18d, <1>19, <1>20, <1>21, <1>22, <1>23,
           <1>24, <1>25, <1>26, <1>27, <1>28, <1>29 DEF Next, Step, Gui, Worker, Loop

(* A try that replaces its pointer destroys no live session's thread, and      *)
(* nothing in use.                                                             *)
LEMMA DestroyCauses ==
  ASSUME TypeOK, Drops, Single, Own, Settled, Held, fault = "none",
         NEW t \in Tries, worker[t] \in {"create", "lost"}
  PROVE  /\ DestroyFault(ptr[role[t]]) = "terminate" => dropped
         /\ DestroyFault(ptr[role[t]]) = "dangling"
                => \/ overlapped \/ released
                   \/ worker[t] = "lost" /\ gui = "calling" /\ guiRole = "server"
                   \/ caller[t] # 0 /\ gui = "calling" /\ guiRole = "server"
<1> DEFINE o == ptr[role[t]]
<1> USE AppAssumption
<1>1. DestroyFault(o) = "terminate" => o \in Tries /\ obj[o] = "down"
  BY DEF DestroyFault, TypeOK, Tries
<1>2. SUFFICES ASSUME ~overlapped, ~released, DestroyFault(o) = "dangling"
               PROVE  \/ worker[t] = "lost" /\ gui = "calling" /\ guiRole = "server"
                      \/ caller[t] # 0 /\ gui = "calling" /\ guiRole = "server"
  BY <1>1 DEF Drops
<1>3. o # 0 /\ obj[o] # "down" /\ InUse(o)
  BY <1>2 DEF DestroyFault
<1>4. /\ \A r \in Roles : ~flag[r]
      /\ \A u \in Tries : Unsettled(u) => u = t
  BY <1>2 DEF Single, Unsettled, Roles
<1>5. \A r \in Roles : ptr[r] = o => ~Opened(r)
  <2> SUFFICES ASSUME NEW r \in Roles, ptr[r] = o, Opened(r) PROVE FALSE
    OBVIOUS
  <2>1. obj[o] = "up"
    BY <1>3 DEF Opened
  <2>2. worker[o] = "won" /\ o \in Tries
    BY <1>2, <1>3, <1>4, <2>1 DEF Settled, Calm, TypeOK, Tries
  <2> QED BY <1>4, <2>2 DEF Unsettled
<1>6. \A u \in Tries : ~(worker[u] \in Inside /\ at[u] = o)
  <2> SUFFICES ASSUME NEW u \in Tries, worker[u] \in Inside PROVE FALSE
    OBVIOUS
  <2>1. role[u] \in Roles
    BY DEF TypeOK
  <2>2. CASE worker[u] = "connecting"
    BY <1>4, <2>2 DEF Unsettled
  <2>3. CASE worker[u] \in {"requesting", "polling"}
    BY <1>2, <1>4, <2>1, <2>3 DEF Settled, Calm, Watching
  <2> QED BY <2>2, <2>3 DEF Inside
<1>7. \A s \in Sends : ~(sender[s] = "sending" /\ senderAt[s] = o)
  BY <1>2, <1>5 DEF Held, Calm, TypeOK
<1>8. ~(gui = "hanging")
  BY <1>2 DEF Settled, Calm, Releasing
<1>9. gui = "calling" /\ guiAt = o
  BY <1>3, <1>6, <1>7, <1>8 DEF InUse
<1>10. guiRole = "server"
  BY <1>2, <1>5, <1>9 DEF Held, Calm, TypeOK, Roles
<1>11. worker[t] = "create" => caller[t] # 0
  BY <1>2, <1>9 DEF Held, Calm
<1> QED BY <1>9, <1>10, <1>11

(* Each way to fail has its cause. *)
LEMMA CausesNext ==
  TypeOK /\ Single /\ Own /\ Drops /\ Settled /\ Held
      /\ Running /\ CrashCauses /\ [Next]_vars => CrashCauses'
<1> SUFFICES ASSUME TypeOK, Single, Own, Drops, Settled, Held, Running, CrashCauses, [Next]_vars
             PROVE CrashCauses'
  OBVIOUS
<1> USE AppAssumption DEF pointers, calls, window, senders, threads, history, settings,
                          WorkerGoto, LoopGoto, CrashCauses, Running, TypeOK, Roles
<1>1. ASSUME NEW r \in Roles, Press(r) PROVE CrashCauses'
  BY <1>1 DEF Press, PassTests, MayStart
<1>2. ASSUME NEW r \in Roles, Release(r) PROVE CrashCauses'
  BY <1>2 DEF Release
<1>3. ASSUME NEW r \in Roles, CallTest(r) PROVE CrashCauses'
  BY <1>3 DEF CallTest
<1>4. ASSUME NEW r \in Roles, NEW s \in Sends, SendFile(r, s) PROVE CrashCauses'
  BY <1>4 DEF SendFile
<1>5. CASE HangUp
  BY <1>5 DEF HangUp, GuiEnter
<1>5u. CASE HungUp
  BY <1>5u DEF HungUp, GuiReturns
<1>6. CASE Reset
  <2>1. ptr[guiRole] \in 0 .. MaxTries /\ fault' = DestroyFault(ptr[guiRole])
    BY <1>6 DEF Reset, SetPointer
  <2>2. Releasing /\ UNCHANGED <<overlapped, dropped, released>>
    BY <1>6 DEF Reset, Releasing
  <2>3. overlapped \/ released
    BY <2>2 DEF Settled, Calm
  <2>4. fault' = "terminate" => \E o \in Tries : obj[o] = "down"
    BY <2>1 DEF DestroyFault, Tries
  <2> QED BY <2>2, <2>3, <2>4 DEF Drops
<1>7. CASE Call
  BY <1>7 DEF Call, GuiEnter
<1>7d. CASE Called
  BY <1>7d DEF Called, GuiReturns
<1>8. CASE ToggleAuto
  BY <1>8 DEF ToggleAuto
<1>9. CASE Quit
  <2>1. fault' = "terminate" => \E o \in Tries : obj[o] = "down"
    BY <1>9 DEF Quit, DestroyFault, Tries
  <2>2. exited' /\ UNCHANGED <<overlapped, dropped>>
    BY <1>9 DEF Quit
  <2> QED BY <2>1, <2>2 DEF Drops
<1>10. ASSUME NEW t \in Tries, Create(t) PROVE CrashCauses'
  <2>1. fault' = DestroyFault(ptr[role[t]]) /\ worker[t] \in {"create", "lost"}
    BY <1>10 DEF Create, SetPointer
  <2>2. UNCHANGED <<overlapped, dropped, released, guiRole>> /\ (worker[t] = "lost" \/ caller[t] # 0 => UNCHANGED gui)
    BY <1>10 DEF Create
  <2> HIDE DEF TypeOK
  <2>3. /\ DestroyFault(ptr[role[t]]) = "terminate" => dropped
        /\ DestroyFault(ptr[role[t]]) = "dangling"
                => \/ overlapped \/ released
                   \/ worker[t] = "lost" /\ gui = "calling" /\ guiRole = "server"
                   \/ caller[t] # 0 /\ gui = "calling" /\ guiRole = "server"
    BY <2>1, DestroyCauses
  <2> QED BY <2>1, <2>2, <2>3
<1>11. ASSUME NEW t \in Tries, Begin(t) PROVE CrashCauses'
  BY <1>11 DEF Begin, Enter
<1>12. ASSUME NEW t \in Tries, Connected(t) PROVE CrashCauses'
  <2>1. fault' = "terminate" => overlapped
    BY <1>12 DEF Connected, Own
  <2>2. fault' # "dangling"
    BY <1>12 DEF Connected
  <2> QED BY <1>12, <2>1, <2>2 DEF Connected
<1>13. ASSUME NEW t \in Tries, ConnectFails(t) PROVE CrashCauses'
  BY <1>13 DEF ConnectFails
<1>14. ASSUME NEW t \in Tries, Discard(t) PROVE CrashCauses'
  <2>1. fault' = DestroyFault(ptr[role[t]]) /\ worker[t] \in {"create", "lost"}
    BY <1>14 DEF Discard, SetPointer
  <2>2. UNCHANGED <<overlapped, dropped, released, guiRole>> /\ (worker[t] = "lost" \/ caller[t] # 0 => UNCHANGED gui)
    BY <1>14 DEF Discard
  <2> HIDE DEF TypeOK
  <2>3. /\ DestroyFault(ptr[role[t]]) = "terminate" => dropped
        /\ DestroyFault(ptr[role[t]]) = "dangling"
                => \/ overlapped \/ released
                   \/ worker[t] = "lost" /\ gui = "calling" /\ guiRole = "server"
                   \/ caller[t] # 0 /\ gui = "calling" /\ guiRole = "server"
    BY <2>1, DestroyCauses
  <2> QED BY <2>1, <2>2, <2>3
<1>15. ASSUME NEW t \in Tries, SetFlag(t) PROVE CrashCauses'
  BY <1>15 DEF SetFlag
<1>16. ASSUME NEW t \in Tries, Request(t) PROVE CrashCauses'
  BY <1>16 DEF Request, Enter
<1>16d. ASSUME NEW t \in Tries, Requested(t) PROVE CrashCauses'
  BY <1>16d DEF Requested
<1>17. ASSUME NEW t \in Tries, PollTest(t) PROVE CrashCauses'
  BY <1>17 DEF PollTest
<1>18. ASSUME NEW t \in Tries, PollDeref(t) PROVE CrashCauses'
  BY <1>18 DEF PollDeref, Enter
<1>18s. ASSUME NEW t \in Tries, RefreshSkips(t) PROVE CrashCauses'
  BY <1>18s DEF RefreshSkips
<1>18d. ASSUME NEW t \in Tries, Polled(t) PROVE CrashCauses'
  BY <1>18d DEF Polled
<1>19. ASSUME NEW t \in Tries, ClearFlag(t) PROVE CrashCauses'
  BY <1>19 DEF ClearFlag
<1>20. ASSUME NEW t \in Tries, RetryTest(t) PROVE CrashCauses'
  BY <1>20 DEF RetryTest
<1>21. ASSUME NEW t \in Tries, SpawnLoop(t) PROVE CrashCauses'
  BY <1>21 DEF SpawnLoop
<1>22. ASSUME NEW t \in Tries, LoopTest(t) PROVE CrashCauses'
  BY <1>22 DEF LoopTest
<1>23. ASSUME NEW t \in Tries, LoopWakes(t) PROVE CrashCauses'
  BY <1>23 DEF LoopWakes
<1>24. ASSUME NEW t \in Tries, LoopConnects(t) PROVE CrashCauses'
  BY <1>24 DEF LoopConnects, PassTests, MayStart
<1>25. ASSUME NEW t \in Tries, LoopWaited(t) PROVE CrashCauses'
  BY <1>25 DEF LoopWaited
<1>26. ASSUME NEW t \in Tries, SessionDrops(t) PROVE CrashCauses'
  BY <1>26 DEF SessionDrops
<1>27. ASSUME NEW s \in Sends, SenderBegins(s) PROVE CrashCauses'
  BY <1>27 DEF SenderBegins
<1>28. ASSUME NEW s \in Sends, SenderEnds(s) PROVE CrashCauses'
  BY <1>28 DEF SenderEnds
<1>29. CASE UNCHANGED vars
  BY <1>29 DEF vars
<1> QED BY <1>1, <1>2, <1>3, <1>4, <1>5, <1>5u, <1>6, <1>7, <1>7d, <1>8, <1>9, <1>10, <1>11, <1>12,
           <1>13, <1>14, <1>15, <1>16, <1>16d, <1>17, <1>18, <1>18s, <1>18d, <1>19, <1>20, <1>21, <1>22, <1>23,
           <1>24, <1>25, <1>26, <1>27, <1>28, <1>29 DEF Next, Step, Gui, Worker, Loop

-----------------------------------------------------------------------------
IInv == TypeOK /\ Drops /\ Single /\ Own /\ FlagsTruthful /\ Watched /\ PtrRole
             /\ Settled /\ Held /\ CrashCauses

(* The inductive invariant holds. *)
LEMMA Inductive == Spec => []IInv
<1>1. Init => IInv
  <2> SUFFICES ASSUME Init PROVE IInv
    OBVIOUS
  <2> USE AppAssumption DEF Init
  <2>1. TypeOK
    <3>1. ptr \in [Roles -> 0 .. MaxTries] /\ tries \in 0 .. MaxTries
      OBVIOUS
    <3>2. \A t \in Tries : worker[t] = "none" <=> t > tries
      BY DEF Tries
    <3>3. caller \in [Tries -> 0 .. MaxTries] /\ at \in [Tries -> 0 .. MaxTries]
      OBVIOUS
    <3>4. senderAt \in [Sends -> 0 .. MaxTries]
      OBVIOUS
    <3> QED BY <3>1, <3>2, <3>3, <3>4 DEF TypeOK, WorkerPCs, Roles
  <2>2. \A t \in Tries : worker[t] = "none" /\ obj[t] = "none" /\ ~Unsettled(t)
    BY DEF Unsettled
  <2>4. Drops /\ Own
    BY <2>2 DEF Drops, Own
  <2>5. Single
    BY <2>2 DEF Single, Releasing, Roles
  <2>3. FlagsTruthful /\ Watched /\ CrashCauses
    BY DEF FlagsTruthful, Watched, CrashCauses, Roles
  <2>6. PtrRole /\ Settled /\ Held
    BY <2>2 DEF PtrRole, Settled, Held, Releasing, Watching
  <2> QED BY <2>1, <2>3, <2>4, <2>5, <2>6 DEF IInv
<1>2. IInv /\ [Next]_vars => IInv'
  <2> SUFFICES ASSUME IInv, [Next]_vars PROVE IInv'
    OBVIOUS
  <2>1. CASE Next
    <3>1. Running
      BY <2>1 DEF Next
    <3> QED BY <3>1, TypeNext, DropsNext, SingleNext, OwnNext, TruthNext, WatchedNext,
               PtrRoleNext, SettledNext, HeldNext, CausesNext DEF IInv
  <2>2. CASE UNCHANGED vars
    BY <2>2 DEF vars, pointers, calls, window, senders, threads, history, settings, IInv,
                TypeOK, Drops, Single, Own, FlagsTruthful, Watched, PtrRole, Settled,
                Held, CrashCauses, Unsettled, Releasing, Calm, Opened
  <2> QED BY <2>1, <2>2
<1> QED BY <1>1, <1>2, PTL DEF Spec

(* Every field and thread of AppState keeps its type, and every call that      *)
(* passes its tests makes one object and one thread (app.cpp:204-268).         *)
THEOREM TypeCorrect == Spec => []TypeOK
  BY Inductive, PTL DEF IInv

(* Client and server exclude each other while no attempts overlap (app.cpp:9). *)
THEOREM RolesExclude == Spec => []ModesExclude
<1>1. IInv => ModesExclude
  BY DEF IInv, Single, ModesExclude
<1> QED BY <1>1, Inductive, PTL

(* A set flag means an object with an open session, under the same condition,  *)
(* which is what send_chat, do_disconnect and do_stop_server rely on.          *)
THEOREM FlagsMeanSessions == Spec => []FlagsTruthful
  BY Inductive, PTL DEF IInv

(* client_connected is never left set without a worker that will clear it,     *)
(* whatever overlapped (app.cpp:277-304).                                      *)
THEOREM AlwaysWatched == Spec => []Watched
  BY Inductive, PTL DEF IInv

(* What can abort the program: a session that dropped, or overlapping attempts.*)
(* What can free an object a thread is inside: overlapping attempts, a release *)
(* by the user, the exit, or a call of the GUI to a server that only starts    *)
(* (app.cpp:233, 274, 334, 351, 574, 111-121); never the drops, the reconnects *)
(* and the failures of attempts alone.                                         *)
THEOREM CausesOfCrashes == Spec => []CrashCauses
  BY Inductive, PTL DEF IInv

=============================================================================
