------------------------- MODULE LegacyWindowProofs -------------------------
(***************************************************************************)
(* For any number of goroutines and any queue: one operation at a time, and *)
(* a busy state that is true.                                              *)
(*                                                                         *)
(* An operation is a token that is passed on: from the thread that is about *)
(* to start it to its goroutine, and to the update in the queue that ends   *)
(* it.  There is at most one, and only while the window is busy (Token); a  *)
(* full queue may lose it.                                                 *)
(***************************************************************************)
EXTENDS LegacyWindow, TLAPS

\* The positions of the queue.
Positions == 1 .. Len(queue)

\* Thread t has still to post the update that ends its operation.
Pending(t) == Operating(t) /\ (t = UI \/ at[t] \in {"work", "post", "full", "swap"})

\* What a goroutine posts fits what it does.
TaskThreads ==
    \A t \in Tasks :
        /\ at[t] = "idle" <=> kind[t] = "none"
        /\ at[t] \in {"post", "full", "swap"} =>
              /\ msg[t] \in Updates \ {"Working"}
              /\ Operating(t) <=> Ends(msg[t])

\* The UI thread posts "Working" only; when no goroutine follows, the window is
\* not busy.
UiThread ==
    /\ at[UI] \notin {"work", "return"}
    /\ at[UI] = "idle" => kind[UI] = "none"
    /\ at[UI] # "idle" /\ kind[UI] = "none" => clash /\ ~busy
    /\ kind[UI] \in {"none", "operation", "install"}
    /\ at[UI] \in {"post", "full", "swap"} => msg[UI] = "Working"

\* At most one thread installs.
OneInstall ==
    /\ InstallingMeansInstall
    /\ \A t, u \in Threads : kind[t] = "install" /\ kind[u] = "install" => t = u

\* Where the token may be, and the updates "Working" in the queue.
Pendings == {t \in Threads : Pending(t)}
Endings == {n \in Positions : Ends(queue[n])}
Workings == {n \in Positions : queue[n] = "Working"}

\* There is one token at most, and only while the window is busy.
Token ==
    /\ \A t, u \in Pendings : t = u
    /\ \A m, n \in Endings : m = n
    /\ Pendings = {} \/ Endings = {}
    /\ Pendings # {} \/ Endings # {} => busy

\* "Working" comes before the update that ends it.
Order ==
    /\ \A n \in Workings, m \in Endings : n < m
    /\ Workings # {} => busy \/ clash
    /\ WorkingMeansBusy

\* Only a full queue loses the token, and what is queued is announced.
Kept ==
    /\ \A t \in Threads : at[t] \in {"full", "swap"} => overflow
    /\ busy /\ ~overflow => Pendings # {} \/ Endings # {}
    /\ Len(queue) > 0 => posted \/ \E t \in Threads : at[t] = "notify"

WindowInv ==
    /\ TypeOK
    /\ TaskThreads
    /\ UiThread
    /\ OneInstall
    /\ Token
    /\ Order
    /\ Kept

LEMMA Names ==
    /\ \A l \in {"idle", "work", "post", "full", "swap", "notify", "after", "return"} : l \in Labels
    /\ \A k \in {"none", "operation", "install", "refresh", "cv"} : k \in Kinds
    /\ \A u \in {"Working", "Ready", "Error", "Install paused", "Probed", "CV"} : u \in Updates
BY DEF Labels, Kinds, Updates

\* What append and Tail do to a queue.
LEMMA Appended ==
    ASSUME NEW S, NEW q \in Seq(S), NEW u \in S
    PROVE  /\ Append(q, u) \in Seq(S)
           /\ Len(Append(q, u)) = Len(q) + 1
           /\ \A n \in 1 .. Len(q) : Append(q, u)[n] = q[n]
           /\ Append(q, u)[Len(q) + 1] = u
OBVIOUS

LEMMA Emptied == ASSUME NEW S PROVE <<>> \in Seq(S) /\ Len(<<>>) = 0
OBVIOUS

LEMMA Dropped ==
    ASSUME NEW S, NEW q \in Seq(S), q # <<>>
    PROVE  /\ Tail(q) \in Seq(S)
           /\ Len(q) \in Nat \ {0}
           /\ Len(Tail(q)) = Len(q) - 1
           /\ \A n \in 1 .. Len(q) - 1 : Tail(q)[n] = q[n + 1]
OBVIOUS

LEMMA ResultsOf ==
    /\ Results("operation") = {"Ready", "Error"}
    /\ Results("install") = {"Ready", "Install paused"}
    /\ Results("refresh") = {"Probed"}
    /\ Results("cv") = {"CV"}
BY Zenon DEF Results

-----------------------------------------------------------------------------
(* What the steps do, in terms of single threads and updates.               *)

\* Thread t goes to a label, the others stay where they are.
Moves(t, label) == at'[t] = label /\ \A u \in Threads \ {t} : at'[u] = at[u]

LEMMA Grows ==
    ASSUME TypeOK, NEW t \in Threads, PostSend(t) \/ PostSwap(t), msg[t] \in Updates
    PROVE  /\ at[t] \in {"post", "swap"} /\ Moves(t, "notify")
           /\ UNCHANGED <<busy, installing, status, posted, kind, msg, overflow, clash>>
           /\ queue' \in Seq(Updates) /\ Len(queue) \in Nat /\ Len(queue) < QueueLimit
           /\ Len(queue') = Len(queue) + 1
           /\ \A n \in 1 .. Len(queue) : queue'[n] = queue[n]
           /\ queue'[Len(queue) + 1] = msg[t]
<1>1. queue \in Seq(Updates) /\ at \in [Threads -> Labels]
  BY DEF TypeOK
<1>2. queue' = Append(queue, msg[t]) /\ at' = [at EXCEPT ![t] = "notify"]
  BY DEF PostSend, PostSwap, Goto
<1>3. at[t] \in {"post", "swap"} /\ Len(queue) < QueueLimit
  BY DEF PostSend, PostSwap
<1>4. UNCHANGED <<busy, installing, status, posted, kind, msg, overflow, clash>>
  BY DEF PostSend, PostSwap, window, history
<1>5. Moves(t, "notify")
  BY <1>1, <1>2 DEF Moves
<1> QED BY <1>1, <1>2, <1>3, <1>4, <1>5, Appended

LEMMA Shrinks ==
    ASSUME TypeOK, NEW t \in Threads, PostDrop(t)
    PROVE  /\ at[t] = "full" /\ Moves(t, "swap")
           /\ UNCHANGED <<busy, installing, status, posted, kind, msg, overflow, clash>>
           /\ queue' \in Seq(Updates) /\ Len(queue) \in Nat \ {0}
           /\ Len(queue') = Len(queue) - 1
           /\ \A n \in 1 .. Len(queue) - 1 : queue'[n] = queue[n + 1]
<1>1. queue \in Seq(Updates) /\ at \in [Threads -> Labels]
  BY DEF TypeOK
<1>2. queue # <<>> /\ queue' = Tail(queue) /\ at' = [at EXCEPT ![t] = "swap"]
  BY DEF PostDrop, Goto
<1>3. at[t] = "full" /\ UNCHANGED <<busy, installing, status, posted, kind, msg, overflow, clash>>
  BY DEF PostDrop, window, history
<1>4. Moves(t, "swap")
  BY <1>1, <1>2 DEF Moves
<1> QED BY <1>1, <1>2, <1>3, <1>4, Dropped

LEMMA Works ==
    ASSUME TypeOK, TaskThreads, NEW t \in Tasks, Work(t)
    PROVE  /\ at[t] = "work" /\ Moves(t, "post")
           /\ UNCHANGED <<busy, installing, status, queue, posted, kind, overflow, clash>>
           /\ msg'[t] \in Updates \ {"Working"}
           /\ Operating(t) <=> Ends(msg'[t])
           /\ \A u \in Threads \ {t} : msg'[u] = msg[u]
<1> USE DEF Threads
<1>1. /\ at \in [Threads -> Labels] /\ kind \in [Threads -> Kinds]
      /\ msg \in [Threads -> Updates \cup {"none"}]
  BY DEF TypeOK
<1>2. PICK result \in Results(kind[t]) : msg' = [msg EXCEPT ![t] = result]
  BY DEF Work
<1>3. at[t] = "work" /\ at' = [at EXCEPT ![t] = "post"]
  BY DEF Work, Goto
<1>4. UNCHANGED <<busy, installing, status, queue, posted, kind, overflow, clash>>
  BY DEF Work, window, channel, history
<1>5. kind[t] \in {"operation", "install", "refresh", "cv"}
  BY <1>1, <1>3 DEF TaskThreads, Kinds
<1>6. result \in Updates \ {"Working"} /\ (Operating(t) <=> Ends(result))
  BY <1>5, ResultsOf DEF Updates, Operating, Ends
<1>7. msg'[t] = result /\ \A u \in Threads \ {t} : msg'[u] = msg[u]
  BY <1>1, <1>2
<1>8. Moves(t, "post")
  BY <1>1, <1>3 DEF Moves
<1> QED BY <1>3, <1>4, <1>6, <1>7, <1>8

\* Thread t, unless it is t itself, begins to work on k.
Begun(t, k) ==
    /\ t \in Tasks /\ at[t] = "idle" /\ at'[t] = "work"
    /\ kind'[t] = k

LEMMA Starts ==
    ASSUME TypeOK, NEW k \in {"refresh", "cv"}, ClickTask(k)
    PROVE  /\ UNCHANGED <<busy, installing, status, queue, posted, msg, overflow, clash>>
           /\ at[UI] = "idle"
           /\ \E t \in Tasks :
                 /\ Begun(t, k)
                 /\ \A u \in Threads \ {t} : at'[u] = at[u] /\ kind'[u] = kind[u]
<1> USE DEF Threads
<1>1. at \in [Threads -> Labels] /\ kind \in [Threads -> Kinds]
  BY DEF TypeOK
<1>2. PICK t \in Tasks : Begin(t, k)
  BY DEF ClickTask
<1>3. Begun(t, k) /\ \A u \in Threads \ {t} : at'[u] = at[u] /\ kind'[u] = kind[u]
  BY <1>1, <1>2 DEF Begin, Begun
<1> QED BY <1>3 DEF ClickTask, window, channel, history

LEMMA Hands ==
    ASSUME TypeOK, UiGo
    PROVE  /\ at[UI] = "after" /\ at'[UI] = "idle"
           /\ UNCHANGED <<busy, installing, status, queue, posted, msg, overflow, clash>>
           /\ \/ /\ kind[UI] = "none" /\ kind'[UI] = "none"
                 /\ \A u \in Threads \ {UI} : at'[u] = at[u] /\ kind'[u] = kind[u]
              \/ /\ kind[UI] # "none" /\ kind'[UI] = "none"
                 /\ \E t \in Tasks :
                       /\ Begun(t, kind[UI])
                       /\ \A u \in Threads \ {UI, t} : at'[u] = at[u] /\ kind'[u] = kind[u]
<1> USE WindowAssumption DEF Threads
<1>1. at \in [Threads -> Labels] /\ kind \in [Threads -> Kinds]
  BY DEF TypeOK
<1>2. /\ at[UI] = "after"
      /\ UNCHANGED <<busy, installing, status, queue, posted, msg, overflow, clash>>
  BY DEF UiGo, window, channel, history
<1>3. CASE kind[UI] = "none"
  BY <1>1, <1>2, <1>3 DEF UiGo, Goto
<1>4. CASE kind[UI] # "none"
  <2>1. PICK t \in Tasks :
          /\ at[t] = "idle"
          /\ at' = [at EXCEPT ![UI] = "idle", ![t] = "work"]
          /\ kind' = [kind EXCEPT ![UI] = "none", ![t] = kind[UI]]
    BY <1>4 DEF UiGo
  <2>2. Begun(t, kind[UI]) /\ at'[UI] = "idle" /\ kind'[UI] = "none"
    BY <1>1, <2>1 DEF Begun
  <2>3. \A u \in Threads \ {UI, t} : at'[u] = at[u] /\ kind'[u] = kind[u]
    BY <1>1, <2>1
  <2> QED BY <1>2, <1>4, <2>2, <2>3
<1> QED BY <1>3, <1>4

LEMMA Follows ==
    ASSUME TypeOK, NEW t \in Tasks, Posted(t)
    PROVE  /\ at[t] = "after" /\ at'[t] = "return" /\ kind'[t] = kind[t]
           /\ UNCHANGED <<busy, installing, status, queue, posted, msg, overflow, clash>>
           /\ \/ \A u \in Threads \ {t} : at'[u] = at[u] /\ kind'[u] = kind[u]
              \/ \E v \in Tasks :
                    /\ Begun(v, "refresh") /\ v # t
                    /\ \A u \in Threads \ {t, v} : at'[u] = at[u] /\ kind'[u] = kind[u]
<1> USE WindowAssumption DEF Threads
<1>1. at \in [Threads -> Labels] /\ kind \in [Threads -> Kinds]
  BY DEF TypeOK
<1>2. at[t] = "after" /\ UNCHANGED <<busy, installing, status, queue, posted, msg, overflow, clash>>
  BY DEF Posted, window, channel, history
<1>3. CASE Goto(t, "return") /\ UNCHANGED kind
  BY <1>1, <1>2, <1>3 DEF Goto
<1>4. ASSUME NEW v \in Tasks, at[v] = "idle",
             at' = [at EXCEPT ![t] = "return", ![v] = "work"],
             kind' = [kind EXCEPT ![v] = "refresh"]
      PROVE  /\ at'[t] = "return" /\ kind'[t] = kind[t]
             /\ Begun(v, "refresh") /\ v # t
             /\ \A u \in Threads \ {t, v} : at'[u] = at[u] /\ kind'[u] = kind[u]
  <2>1. v # t
    BY <1>2, <1>4
  <2> QED BY <1>1, <1>4, <2>1 DEF Begun
<1>5. \/ Goto(t, "return") /\ UNCHANGED kind
      \/ \E v \in Tasks : /\ at[v] = "idle"
                          /\ at' = [at EXCEPT ![t] = "return", ![v] = "work"]
                          /\ kind' = [kind EXCEPT ![v] = "refresh"]
  BY DEF Posted
<1> QED BY <1>2, <1>3, <1>4, <1>5

LEMMA Drains ==
    ASSUME TypeOK, Drain
    PROVE  /\ at[UI] = "idle" /\ Len(queue') = 0 /\ posted' = FALSE
           /\ UNCHANGED <<installing, at, kind, msg, overflow, clash>>
           /\ busy' <=> busy /\ ~\E n \in Positions : Ends(queue[n])
           /\ \/ \E n \in Positions :
                    /\ queue[n] # "CV" /\ status' = queue[n]
                    /\ \A k \in Positions : k > n => queue[k] = "CV"
              \/ (\A n \in Positions : queue[n] = "CV") /\ status' = status
<1>1. DOMAIN queue = Positions
  BY DEF TypeOK, Positions
<1>2. at[UI] = "idle" /\ Len(queue') = 0 /\ posted' = FALSE
  BY Emptied, Zenon DEF Drain
<1>3. UNCHANGED <<installing, at, kind, msg, overflow, clash>>
  BY DEF Drain, threads, history
<1>4. busy' <=> busy /\ ~\E n \in Positions : Ends(queue[n])
  BY <1>1, Zenon DEF Drain
<1>5. \/ \E n \in Positions :
            /\ queue[n] # "CV" /\ status' = queue[n]
            /\ \A k \in Positions : k > n => queue[k] = "CV"
      \/ (\A n \in Positions : queue[n] = "CV") /\ status' = status
  BY <1>1, Zenon DEF Drain, LastShown
<1> QED BY <1>2, <1>3, <1>4, <1>5

\* The window as it opens.
LEMMA Opens ==
    ASSUME at' \in Opened, kind' = [t \in Threads |-> IF at'[t] = "work" THEN "refresh" ELSE "none"]
    PROVE  \A t \in Threads : \/ at'[t] = "idle" /\ kind'[t] = "none"
                              \/ t \in Tasks /\ at'[t] = "work" /\ kind'[t] = "refresh"
<1>1. PICK first \in Tasks : at' = [t \in Threads |-> IF t = first THEN "work" ELSE "idle"]
  BY DEF Opened
<1> QED BY <1>1

LEMMA InQueue ==
    ASSUME TypeOK
    PROVE  /\ Len(queue) \in Nat
           /\ Endings \subseteq 1 .. Len(queue) /\ Workings \subseteq 1 .. Len(queue)
BY DEF TypeOK, Endings, Workings, Positions

\* The token and the queue are left alone.
Same == Pendings' = Pendings /\ Endings' = Endings /\ Workings' = Workings

\* An update that is queued: "Working", the one that ends the operation, or another.
LEMMA Sends ==
    ASSUME TypeOK, TaskThreads, UiThread, NEW t \in Threads, PostSend(t) \/ PostSwap(t)
    PROVE  /\ UNCHANGED <<busy, status, overflow, clash>>
           /\ Moves(t, "notify")
           /\ \/ /\ Pendings' = Pendings /\ Endings' = Endings
                 /\ Workings' = Workings \cup {Len(queue) + 1}
                 /\ Pendings # {} \/ (clash /\ ~busy)
              \/ /\ Pendings' = Pendings \ {t} /\ t \in Pendings
                 /\ Endings' = Endings \cup {Len(queue) + 1} /\ Workings' = Workings
              \/ Same
<1> USE WindowAssumption DEF Threads
<1>1. msg[t] \in Updates
  BY Names DEF PostSend, PostSwap, TaskThreads, UiThread
<1>2. /\ at[t] \in {"post", "swap"} /\ Moves(t, "notify")
      /\ UNCHANGED <<busy, status, kind, msg, overflow, clash>>
      /\ Len(queue) \in Nat
      /\ Len(queue') = Len(queue) + 1
      /\ \A n \in 1 .. Len(queue) : queue'[n] = queue[n]
      /\ queue'[Len(queue) + 1] = msg[t]
  BY <1>1, Grows
<1>3. Positions' = Positions \cup {Len(queue) + 1} /\ Len(queue) + 1 \notin Positions
  BY <1>2 DEF Positions
<1>4. Endings' = IF Ends(msg[t]) THEN Endings \cup {Len(queue) + 1} ELSE Endings
  BY <1>2, <1>3 DEF Endings, Ends, Positions
<1>5. Workings' = IF msg[t] = "Working" THEN Workings \cup {Len(queue) + 1} ELSE Workings
  BY <1>2, <1>3 DEF Workings, Positions
<1>6. CASE t = UI
  BY <1>2, <1>4, <1>5, <1>6 DEF UiThread, Pendings, Pending, Operating, Ends, Moves
<1>7. CASE t \in Tasks
  BY <1>2, <1>4, <1>5, <1>7 DEF TaskThreads, Pendings, Pending, Operating, Ends, Moves, Same
<1> QED BY <1>2, <1>6, <1>7 DEF Moves

LEMMA Drops ==
    ASSUME TypeOK, NEW t \in Threads, PostDrop(t)
    PROVE  /\ UNCHANGED <<busy, status, posted, overflow, clash>>
           /\ at[t] = "full" /\ Moves(t, "swap")
           /\ Len(queue) \in Nat \ {0} /\ Len(queue') = Len(queue) - 1
           /\ Pendings' = Pendings
           /\ \A n \in Endings' : n \in Int /\ n + 1 \in Endings
           /\ \A n \in Workings' : n \in Int /\ n + 1 \in Workings
<1> USE WindowAssumption DEF Threads
<1>1. /\ at[t] = "full" /\ Moves(t, "swap")
      /\ UNCHANGED <<busy, status, posted, kind, msg, overflow, clash>>
      /\ Len(queue) \in Nat \ {0}
      /\ Len(queue') = Len(queue) - 1
      /\ \A n \in 1 .. Len(queue) - 1 : queue'[n] = queue[n + 1]
  BY Shrinks
<1>2. \A n \in Positions' : n \in Int /\ n + 1 \in Positions /\ queue'[n] = queue[n + 1]
  BY <1>1 DEF Positions
<1>3. \A n \in Endings' : n \in Int /\ n + 1 \in Endings
  BY <1>2 DEF Endings, Ends
<1>4. \A n \in Workings' : n \in Int /\ n + 1 \in Workings
  BY <1>2 DEF Workings
<1>5. Pendings' = Pendings
  BY <1>1 DEF Pendings, Pending, Operating, Moves
<1> QED BY <1>1, <1>3, <1>4, <1>5

\* The window takes the updates; the last one it shows is "Working" only if it had
\* nothing to show after it.
LEMMA Shows ==
    ASSUME TypeOK, Drain
    PROVE  /\ UNCHANGED <<at, overflow, clash>>
           /\ Len(queue') = 0
           /\ Pendings' = Pendings /\ Endings' = {} /\ Workings' = {}
           /\ busy' <=> busy /\ Endings = {}
           /\ status' = "Working" =>
                 \/ \E n \in Workings : \A m \in Endings : m <= n
                 \/ status = "Working" /\ Endings = {}
<1>1. /\ Len(queue') = 0
      /\ UNCHANGED <<at, kind, overflow, clash>>
      /\ busy' <=> busy /\ ~\E n \in Positions : Ends(queue[n])
      /\ \/ \E n \in Positions :
               /\ queue[n] # "CV" /\ status' = queue[n]
               /\ \A k \in Positions : k > n => queue[k] = "CV"
         \/ (\A n \in Positions : queue[n] = "CV") /\ status' = status
  BY Drains
<1>2. Positions' = {}
  BY <1>1 DEF Positions
<1>3. Endings' = {} /\ Workings' = {}
  BY <1>2 DEF Endings, Workings
<1>4. Pendings' = Pendings
  BY <1>1 DEF Pendings, Pending, Operating
<1>5. busy' <=> busy /\ Endings = {}
  BY <1>1 DEF Endings
<1>6. ASSUME status' = "Working"
      PROVE  \/ \E n \in Workings : \A m \in Endings : m <= n
             \/ status = "Working" /\ Endings = {}
  <2>1. CASE (\A n \in Positions : queue[n] = "CV") /\ status' = status
    BY <1>6, <2>1 DEF Endings, Ends
  <2>2. CASE \E n \in Positions :
               /\ status' = queue[n]
               /\ \A k \in Positions : k > n => queue[k] = "CV"
    <3>1. PICK n \in Positions :
            /\ status' = queue[n]
            /\ \A k \in Positions : k > n => queue[k] = "CV"
      BY <2>2
    <3>2. n \in Workings
      BY <1>6, <3>1 DEF Workings
    <3>3. ASSUME NEW m \in Endings PROVE m <= n
      <4>1. m \in Positions /\ queue[m] # "CV"
        BY DEF Endings, Ends
      <4>2. m \in Int /\ n \in Int
        BY <4>1 DEF Positions
      <4> QED BY <3>1, <4>1, <4>2
    <3> QED BY <3>2, <3>3
  <2> QED BY <1>1, <2>1, <2>2
<1> QED BY <1>1, <1>3, <1>4, <1>5, <1>6

\* The token goes to the goroutine that is started.
LEMMA Passes ==
    ASSUME TypeOK, UiThread, UiGo
    PROVE  /\ UNCHANGED <<busy, status, posted, overflow, clash>>
           /\ Len(queue') = Len(queue) /\ Endings' = Endings /\ Workings' = Workings
           /\ \A t \in Threads :
                 at'[t] \in {"full", "swap", "notify"} <=> at[t] \in {"full", "swap", "notify"}
           /\ \A t \in Threads : at'[t] \in {"full", "swap", "notify"} => at'[t] = at[t]
           /\ \/ Pendings' = Pendings
              \/ \E t \in Tasks : Pendings' = (Pendings \ {UI}) \cup {t} /\ UI \in Pendings
<1> USE WindowAssumption DEF Threads
<1>1. /\ at[UI] = "after" /\ at'[UI] = "idle"
      /\ UNCHANGED <<busy, status, queue, posted, overflow, clash>>
      /\ \/ /\ kind[UI] = "none" /\ kind'[UI] = "none"
            /\ \A u \in Threads \ {UI} : at'[u] = at[u] /\ kind'[u] = kind[u]
         \/ /\ kind[UI] # "none" /\ kind'[UI] = "none"
            /\ \E t \in Tasks :
                  /\ Begun(t, kind[UI])
                  /\ \A u \in Threads \ {UI, t} : at'[u] = at[u] /\ kind'[u] = kind[u]
  BY Hands
<1>2. Len(queue') = Len(queue) /\ Endings' = Endings /\ Workings' = Workings
  BY <1>1 DEF Endings, Workings, Positions
<1>3. CASE /\ kind[UI] = "none" /\ kind'[UI] = "none"
           /\ \A u \in Threads \ {UI} : at'[u] = at[u] /\ kind'[u] = kind[u]
  BY <1>1, <1>2, <1>3 DEF Pendings, Pending, Operating
<1>4. ASSUME kind[UI] # "none", kind'[UI] = "none", NEW t \in Tasks, Begun(t, kind[UI]),
             \A u \in Threads \ {UI, t} : at'[u] = at[u] /\ kind'[u] = kind[u]
      PROVE  /\ Pendings' = (Pendings \ {UI}) \cup {t} /\ UI \in Pendings
             /\ \A u \in Threads :
                   at'[u] \in {"full", "swap", "notify"} <=> at[u] \in {"full", "swap", "notify"}
             /\ \A u \in Threads : at'[u] \in {"full", "swap", "notify"} => at'[u] = at[u]
  BY <1>1, <1>4 DEF Pendings, Pending, Operating, Begun, UiThread
<1> QED BY <1>1, <1>2, <1>3, <1>4

-----------------------------------------------------------------------------
\* The types in three parts, so that each step shows what it touches.
Booleans ==
    /\ busy \in BOOLEAN /\ installing \in BOOLEAN
    /\ posted \in BOOLEAN
    /\ overflow \in BOOLEAN /\ clash \in BOOLEAN

Strings ==
    /\ queue \in Seq(Updates) /\ Len(queue) <= QueueLimit
    /\ status \in Updates \cup {"Checking"}

Places ==
    /\ at \in [Threads -> Labels]
    /\ kind \in [Threads -> Kinds]
    /\ msg \in [Threads -> Updates \cup {"none"}]

LEMMA TypeParts == TypeOK <=> Booleans /\ Strings /\ Places
BY DEF TypeOK, Booleans, Strings, Places

\* Every step keeps the types.
LEMMA BooleansNext == Booleans /\ [Next]_vars => Booleans'
<1> SUFFICES ASSUME Booleans, [Next]_vars PROVE Booleans'
  OBVIOUS
<1>1. CASE Drain
  BY <1>1, Zenon DEF Drain, threads, history, LastShown, Booleans
<1>2. CASE UiGo
  BY <1>2, Zenon DEF UiGo, Goto, window, channel, history, Booleans
<1>3. ASSUME NEW k \in {"refresh", "cv"}, ClickTask(k) PROVE Booleans'
  BY <1>3, Zenon DEF ClickTask, Begin, window, channel, history, Booleans
<1>4. CASE ClickOperation
  BY <1>4, Zenon DEF ClickOperation, PostWorking, channel, history, Booleans
<1>5. CASE ClickInstall
  BY <1>5, Zenon DEF ClickInstall, PostWorking, channel, Booleans
<1>6. ASSUME NEW t \in Threads, PostSend(t) PROVE Booleans'
  BY <1>6, Zenon DEF PostSend, Goto, window, history, Booleans
<1>7. ASSUME NEW t \in Threads, PostFull(t) PROVE Booleans'
  BY <1>7, Zenon DEF PostFull, Goto, window, channel, Booleans
<1>8. ASSUME NEW t \in Threads, PostDrop(t) PROVE Booleans'
  BY <1>8, Zenon DEF PostDrop, Goto, window, history, Booleans
<1>9. ASSUME NEW t \in Threads, PostSwap(t) PROVE Booleans'
  BY <1>9, Zenon DEF PostSwap, Goto, window, history, Booleans
<1>10. ASSUME NEW t \in Threads, PostNotify(t) PROVE Booleans'
  BY <1>10, Zenon DEF PostNotify, Goto, window, history, Booleans
<1>11. ASSUME NEW t \in Tasks, Work(t) PROVE Booleans'
  BY <1>11, Zenon DEF Work, Goto, window, channel, history, Booleans
<1>12. ASSUME NEW t \in Tasks, NoCV(t) PROVE Booleans'
  BY <1>12, Zenon DEF NoCV, Goto, window, channel, history, Booleans
<1>13. ASSUME NEW t \in Tasks, Posted(t) PROVE Booleans'
  BY <1>13, Zenon DEF Posted, Goto, window, channel, history, Booleans
<1>14. ASSUME NEW t \in Tasks, Return(t) PROVE Booleans'
  BY <1>14, Zenon DEF Return, Goto, channel, history, Booleans
<1>15. CASE Close
  BY <1>15, Zenon DEF Close, Opened, Booleans
<1>16. CASE UNCHANGED vars
  BY <1>16, Zenon DEF vars, window, channel, threads, history, Booleans
<1> QED BY <1>1, <1>2, <1>3, <1>4, <1>5, <1>6, <1>7, <1>8, <1>9, <1>10, <1>11, <1>12, <1>13,
           <1>14, <1>15, <1>16 DEF Next, UiStep, TaskStep, CallEnds, GoesOn, Post, Threads

LEMMA StringsNext == TypeOK /\ TaskThreads /\ UiThread /\ [Next]_vars => Strings'
<1> SUFFICES ASSUME TypeOK, TaskThreads, UiThread, [Next]_vars PROVE Strings'
  OBVIOUS
<1>0. Strings /\ (UNCHANGED <<queue, status>> => Strings')
  BY TypeParts DEF Strings
<1>1. CASE Drain
  <2>1. queue' \in Seq(Updates) /\ Len(queue') = 0
    BY <1>1, Emptied, Zenon DEF Drain
  <2>2. status' = status \/ \E n \in DOMAIN queue : status' = queue[n]
    BY <1>1 DEF Drain
  <2>3. status' \in Updates \cup {"Checking"}
    <3>1. queue \in Seq(Updates) /\ status \in Updates \cup {"Checking"}
      BY <1>0 DEF Strings
    <3> QED BY <2>2, <3>1
  <2> QED BY <2>1, <2>3, WindowAssumption DEF Strings
<1>2. CASE UiGo
  BY <1>2, <1>0 DEF UiGo, window, channel
<1>3. ASSUME NEW k \in {"refresh", "cv"}, ClickTask(k) PROVE Strings'
  BY <1>3, <1>0 DEF ClickTask, window, channel
<1>4. CASE ClickOperation
  BY <1>4, <1>0 DEF ClickOperation, channel
<1>5. CASE ClickInstall
  BY <1>5, <1>0 DEF ClickInstall, channel
<1>6. ASSUME NEW t \in Threads, PostSend(t) PROVE Strings'
  <2>1. msg[t] \in Updates
    BY <1>6, Names DEF PostSend, TaskThreads, UiThread, Threads
  <2>2. /\ queue' \in Seq(Updates) /\ Len(queue) \in Nat /\ Len(queue) < QueueLimit
        /\ Len(queue') = Len(queue) + 1 /\ status' = status
    BY <1>6, <2>1, Grows
  <2> QED BY <1>0, <2>2, WindowAssumption DEF Strings
<1>7. ASSUME NEW t \in Threads, PostFull(t) PROVE Strings'
  BY <1>7, <1>0 DEF PostFull, window, channel
<1>8. ASSUME NEW t \in Threads, PostDrop(t) PROVE Strings'
  <2>1. /\ queue' \in Seq(Updates) /\ Len(queue) \in Nat \ {0}
        /\ Len(queue') = Len(queue) - 1 /\ status' = status
    BY <1>8, Shrinks
  <2> QED BY <1>0, <2>1, WindowAssumption DEF Strings
<1>9. ASSUME NEW t \in Threads, PostSwap(t) PROVE Strings'
  <2>1. msg[t] \in Updates
    BY <1>9, Names DEF PostSwap, TaskThreads, UiThread, Threads
  <2>2. /\ queue' \in Seq(Updates) /\ Len(queue) \in Nat /\ Len(queue) < QueueLimit
        /\ Len(queue') = Len(queue) + 1 /\ status' = status
    BY <1>9, <2>1, Grows
  <2> QED BY <1>0, <2>2, WindowAssumption DEF Strings
<1>10. ASSUME NEW t \in Threads, PostNotify(t) PROVE Strings'
  BY <1>10, <1>0 DEF PostNotify, window
<1>11. ASSUME NEW t \in Tasks, Work(t) PROVE Strings'
  BY <1>11, <1>0 DEF Work, window, channel
<1>12. ASSUME NEW t \in Tasks, NoCV(t) PROVE Strings'
  BY <1>12, <1>0 DEF NoCV, window, channel
<1>13. ASSUME NEW t \in Tasks, Posted(t) PROVE Strings'
  BY <1>13, <1>0 DEF Posted, window, channel
<1>14. ASSUME NEW t \in Tasks, Return(t) PROVE Strings'
  BY <1>14, <1>0 DEF Return, channel
<1>15. CASE Close
  <2>1. queue' \in Seq(Updates) /\ Len(queue') = 0
    BY <1>15, Emptied, Zenon DEF Close
  <2>2. status' = "Checking"
    BY <1>15 DEF Close
  <2> QED BY <2>1, <2>2, WindowAssumption DEF Strings
<1>16. CASE UNCHANGED vars
  BY <1>16, <1>0 DEF vars, window, channel
<1> QED BY <1>1, <1>2, <1>3, <1>4, <1>5, <1>6, <1>7, <1>8, <1>9, <1>10, <1>11, <1>12, <1>13,
           <1>14, <1>15, <1>16 DEF Next, UiStep, TaskStep, CallEnds, GoesOn, Post, Threads

LEMMA PlacesNext == TypeOK /\ TaskThreads /\ [Next]_vars => Places'
<1> SUFFICES ASSUME TypeOK, TaskThreads, [Next]_vars PROVE Places'
  OBVIOUS
<1>0. Places
  BY TypeParts
<1> USE <1>0, WindowAssumption, Names DEF Places, Threads
<1>1. CASE Drain
  BY <1>1 DEF Drain, threads, LastShown
<1>2. CASE UiGo
  <2>1. msg' = msg
    BY <1>2 DEF UiGo
  <2>2. CASE Goto(UI, "idle") /\ UNCHANGED kind
    BY <2>1, <2>2 DEF Goto
  <2>3. ASSUME NEW t \in Tasks, at' = [at EXCEPT ![UI] = "idle", ![t] = "work"],
               kind' = [kind EXCEPT ![UI] = "none", ![t] = kind[UI]]
        PROVE  Places'
    BY <2>1, <2>3
  <2> QED BY <1>2, <2>2, <2>3 DEF UiGo
<1>3. ASSUME NEW k \in {"refresh", "cv"}, ClickTask(k) PROVE Places'
  <2>1. PICK t \in Tasks : Begin(t, k)
    BY <1>3 DEF ClickTask
  <2>2. msg' = msg
    BY <1>3 DEF ClickTask
  <2> QED BY <2>1, <2>2 DEF Begin
<1>4. CASE ClickOperation
  BY <1>4 DEF ClickOperation, PostWorking
<1>5. CASE ClickInstall
  BY <1>5 DEF ClickInstall, PostWorking
<1>6. ASSUME NEW t \in Threads, PostSend(t) PROVE Places'
  BY <1>6 DEF PostSend, Goto
<1>7. ASSUME NEW t \in Threads, PostFull(t) PROVE Places'
  BY <1>7 DEF PostFull, Goto
<1>8. ASSUME NEW t \in Threads, PostDrop(t) PROVE Places'
  BY <1>8 DEF PostDrop, Goto
<1>9. ASSUME NEW t \in Threads, PostSwap(t) PROVE Places'
  BY <1>9 DEF PostSwap, Goto
<1>10. ASSUME NEW t \in Threads, PostNotify(t) PROVE Places'
  BY <1>10 DEF PostNotify, Goto
<1>11. ASSUME NEW t \in Tasks, Work(t) PROVE Places'
  <2>1. PICK result \in Results(kind[t]) : msg' = [msg EXCEPT ![t] = result]
    BY <1>11 DEF Work
  <2>2. kind[t] \in {"operation", "install", "refresh", "cv"}
    BY <1>11 DEF Work, TaskThreads, Kinds
  <2>3. result \in Updates
    BY <2>1, <2>2, ResultsOf
  <2> QED BY <1>11, <2>1, <2>3 DEF Work, Goto
<1>12. ASSUME NEW t \in Tasks, NoCV(t) PROVE Places'
  BY <1>12 DEF NoCV, Goto
<1>13. ASSUME NEW t \in Tasks, Posted(t) PROVE Places'
  <2>1. msg' = msg
    BY <1>13 DEF Posted
  <2>2. CASE Goto(t, "return") /\ UNCHANGED kind
    BY <2>1, <2>2 DEF Goto
  <2>3. ASSUME NEW u \in Tasks, at' = [at EXCEPT ![t] = "return", ![u] = "work"],
               kind' = [kind EXCEPT ![u] = "refresh"]
        PROVE  Places'
    BY <2>1, <2>3
  <2> QED BY <1>13, <2>2, <2>3 DEF Posted
<1>14. ASSUME NEW t \in Tasks, Return(t) PROVE Places'
  BY <1>14 DEF Return, Goto
<1>15. CASE Close
  BY <1>15 DEF Close, Opened
<1>16. CASE UNCHANGED vars
  BY <1>16 DEF vars, threads
<1> QED BY <1>1, <1>2, <1>3, <1>4, <1>5, <1>6, <1>7, <1>8, <1>9, <1>10, <1>11, <1>12, <1>13,
           <1>14, <1>15, <1>16 DEF Next, UiStep, TaskStep, CallEnds, GoesOn, Post, Threads

LEMMA TypeNext == TypeOK /\ TaskThreads /\ UiThread /\ [Next]_vars => TypeOK'
<1> SUFFICES ASSUME TypeOK, TaskThreads, UiThread, [Next]_vars PROVE TypeOK'
  OBVIOUS
<1>1. Booleans' /\ Strings' /\ Places'
  BY TypeParts, BooleansNext, StringsNext, PlacesNext
<1> QED BY <1>1 DEF TypeOK, Booleans, Strings, Places

LEMMA WindowInit == Init => WindowInv
<1> SUFFICES ASSUME Init PROVE WindowInv
  OBVIOUS
<1> USE WindowAssumption DEF Init, Threads
<1>1. PICK first \in Tasks : at = [t \in Threads |-> IF t = first THEN "work" ELSE "idle"]
  BY DEF Opened
<1>2. TypeOK
  <2>1. Booleans
    BY Zenon DEF Booleans
  <2>2. at \in [Threads -> Labels] /\ kind \in [Threads -> Kinds]
        /\ msg \in [Threads -> Updates \cup {"none"}]
    BY <1>1, Names
  <2>3. queue \in Seq(Updates) /\ Len(queue) = 0 /\ status = "Checking"
    BY Emptied, Zenon
  <2> HIDE DEF Init
  <2>4. Strings /\ Places
    BY <2>2, <2>3 DEF Strings, Places
  <2> QED BY <2>1, <2>4, TypeParts
<1>3. TaskThreads /\ UiThread /\ OneInstall
  BY <1>1 DEF TaskThreads, UiThread, OneInstall, InstallingMeansInstall
<1>4. ~busy /\ status = "Checking" /\ Len(queue) = 0
  BY Emptied, Zenon
<1>5. Pendings = {} /\ \A t \in Threads : at[t] \notin {"full", "swap"}
  BY <1>1 DEF Pendings, Pending, Operating
<1> HIDE DEF Init
<1>6. Endings = {} /\ Workings = {}
  BY <1>4 DEF Endings, Workings, Positions
<1>7. Token /\ Order /\ Kept
  BY <1>4, <1>5, <1>6 DEF Token, Order, WorkingMeansBusy, Kept
<1> QED BY <1>2, <1>3, <1>7 DEF WindowInv

\* A goroutine posts what its kind makes it post.
LEMMA TaskNext == TypeOK /\ TaskThreads /\ [Next]_vars => TaskThreads'
<1> SUFFICES ASSUME TypeOK, TaskThreads, [Next]_vars PROVE TaskThreads'
  OBVIOUS
<1> USE WindowAssumption DEF Threads, TypeOK, TaskThreads, Labels, Updates, Kinds,
         Operating, Ends
<1>1. CASE Drain
  BY <1>1 DEF Drain, threads, history, LastShown
<1>2. CASE UiGo
  <2> HIDE DEF TypeOK, Labels, Kinds, Updates, Operating, Ends
  <2>1. \A t \in Tasks : Operating(t)' <=> kind'[t] \in {"operation", "install"}
    BY DEF Operating
  <2>2. \A t \in Tasks : Operating(t) <=> kind[t] \in {"operation", "install"}
    BY DEF Operating
  <2> QED BY <1>2, <2>1, <2>2, Hands DEF Begun
<1>3. ASSUME NEW k \in {"refresh", "cv"}, ClickTask(k) PROVE TaskThreads'
  BY <1>3 DEF ClickTask, Begin, window, channel, history
<1>4. CASE ClickOperation
  BY <1>4 DEF ClickOperation, PostWorking, channel, history
<1>5. CASE ClickInstall
  BY <1>5 DEF ClickInstall, PostWorking, channel
<1>6. ASSUME NEW t \in Threads, PostSend(t) PROVE TaskThreads'
  BY <1>6 DEF PostSend, Goto, window, history
<1>7. ASSUME NEW t \in Threads, PostFull(t) PROVE TaskThreads'
  BY <1>7 DEF PostFull, Goto, window, channel
<1>8. ASSUME NEW t \in Threads, PostDrop(t) PROVE TaskThreads'
  BY <1>8 DEF PostDrop, Goto, window, history
<1>9. ASSUME NEW t \in Threads, PostSwap(t) PROVE TaskThreads'
  BY <1>9 DEF PostSwap, Goto, window, history
<1>10. ASSUME NEW t \in Threads, PostNotify(t) PROVE TaskThreads'
  BY <1>10 DEF PostNotify, Goto, window, history
<1>11. ASSUME NEW t \in Tasks, Work(t) PROVE TaskThreads'
  <2> HIDE DEF TypeOK, Labels, Kinds, Updates
  <2> QED BY <1>11, Works DEF Moves
<1>12. ASSUME NEW t \in Tasks, NoCV(t) PROVE TaskThreads'
  BY <1>12 DEF NoCV, Goto, window, channel, history
<1>13. ASSUME NEW t \in Tasks, Posted(t) PROVE TaskThreads'
  <2> HIDE DEF TypeOK, Labels, Kinds, Updates, Operating, Ends
  <2>1. \A u \in Tasks : Operating(u)' <=> kind'[u] \in {"operation", "install"}
    BY DEF Operating
  <2>2. \A u \in Tasks : Operating(u) <=> kind[u] \in {"operation", "install"}
    BY DEF Operating
  <2> QED BY <1>13, <2>1, <2>2, Follows DEF Begun
<1>14. ASSUME NEW t \in Tasks, Return(t) PROVE TaskThreads'
  BY <1>14 DEF Return, Goto, channel, history
<1>15. CASE Close
  BY <1>15 DEF Close, Opened
<1>16. CASE UNCHANGED vars
  BY <1>16 DEF vars, window, channel, threads, history
<1> QED BY <1>1, <1>2, <1>3, <1>4, <1>5, <1>6, <1>7, <1>8, <1>9, <1>10, <1>11, <1>12, <1>13,
           <1>14, <1>15, <1>16 DEF Next, UiStep, TaskStep, CallEnds, GoesOn, Post, Threads

\* The UI thread posts only when a button was clicked.
LEMMA UiNext == TypeOK /\ UiThread /\ [Next]_vars => UiThread'
<1> SUFFICES ASSUME TypeOK, UiThread, [Next]_vars PROVE UiThread'
  OBVIOUS
<1> USE WindowAssumption DEF Threads, TypeOK, UiThread, Labels, Updates, Kinds
<1>1. CASE Drain
  BY <1>1 DEF Drain, threads, history, LastShown
<1>2. CASE UiGo
  BY <1>2 DEF UiGo, Goto, window, channel, history
<1>3. ASSUME NEW k \in {"refresh", "cv"}, ClickTask(k) PROVE UiThread'
  BY <1>3 DEF ClickTask, Begin, window, channel, history
<1>4. CASE ClickOperation
  BY <1>4 DEF ClickOperation, PostWorking, channel, history
<1>5. CASE ClickInstall
  BY <1>5 DEF ClickInstall, PostWorking, channel
<1>6. ASSUME NEW t \in Threads, PostSend(t) PROVE UiThread'
  BY <1>6 DEF PostSend, Goto, window, history
<1>7. ASSUME NEW t \in Threads, PostFull(t) PROVE UiThread'
  BY <1>7 DEF PostFull, Goto, window, channel
<1>8. ASSUME NEW t \in Threads, PostDrop(t) PROVE UiThread'
  BY <1>8 DEF PostDrop, Goto, window, history
<1>9. ASSUME NEW t \in Threads, PostSwap(t) PROVE UiThread'
  BY <1>9 DEF PostSwap, Goto, window, history
<1>10. ASSUME NEW t \in Threads, PostNotify(t) PROVE UiThread'
  BY <1>10 DEF PostNotify, Goto, window, history
<1>11. ASSUME NEW t \in Tasks, Work(t) PROVE UiThread'
  BY <1>11 DEF Work, Goto, window, channel, history
<1>12. ASSUME NEW t \in Tasks, NoCV(t) PROVE UiThread'
  BY <1>12 DEF NoCV, Goto, window, channel, history
<1>13. ASSUME NEW t \in Tasks, Posted(t) PROVE UiThread'
  BY <1>13 DEF Posted, Goto, window, channel, history
<1>14. ASSUME NEW t \in Tasks, Return(t) PROVE UiThread'
  BY <1>14 DEF Return, Goto, channel, history
<1>15. CASE Close
  BY <1>15 DEF Close, Opened
<1>16. CASE UNCHANGED vars
  BY <1>16 DEF vars, window, channel, threads, history
<1> QED BY <1>1, <1>2, <1>3, <1>4, <1>5, <1>6, <1>7, <1>8, <1>9, <1>10, <1>11, <1>12, <1>13,
           <1>14, <1>15, <1>16 DEF Next, UiStep, TaskStep, CallEnds, GoesOn, Post, Threads

\* An installation is started when none is under way.
LEMMA InstallNext == TypeOK /\ TaskThreads /\ UiThread /\ OneInstall /\ [Next]_vars => OneInstall'
<1> SUFFICES ASSUME TypeOK, TaskThreads, UiThread, OneInstall, [Next]_vars PROVE OneInstall'
  OBVIOUS
<1> USE WindowAssumption DEF Threads, TypeOK, TaskThreads, UiThread, OneInstall,
         InstallingMeansInstall, Labels, Kinds
<1>1. CASE Drain
  BY <1>1 DEF Drain, threads, history, LastShown
<1>2. CASE UiGo
  BY <1>2 DEF UiGo, Goto, window, channel, history
<1>3. ASSUME NEW k \in {"refresh", "cv"}, ClickTask(k) PROVE OneInstall'
  BY <1>3 DEF ClickTask, Begin, window, channel, history
<1>4. CASE ClickOperation
  BY <1>4 DEF ClickOperation, PostWorking, channel, history
<1>5. CASE ClickInstall
  BY <1>5 DEF ClickInstall, PostWorking, channel
<1>6. ASSUME NEW t \in Threads, PostSend(t) PROVE OneInstall'
  BY <1>6 DEF PostSend, Goto, window, history
<1>7. ASSUME NEW t \in Threads, PostFull(t) PROVE OneInstall'
  BY <1>7 DEF PostFull, Goto, window, channel
<1>8. ASSUME NEW t \in Threads, PostDrop(t) PROVE OneInstall'
  BY <1>8 DEF PostDrop, Goto, window, history
<1>9. ASSUME NEW t \in Threads, PostSwap(t) PROVE OneInstall'
  BY <1>9 DEF PostSwap, Goto, window, history
<1>10. ASSUME NEW t \in Threads, PostNotify(t) PROVE OneInstall'
  BY <1>10 DEF PostNotify, Goto, window, history
<1>11. ASSUME NEW t \in Tasks, Work(t) PROVE OneInstall'
  BY <1>11 DEF Work, Goto, window, channel, history
<1>12. ASSUME NEW t \in Tasks, NoCV(t) PROVE OneInstall'
  BY <1>12 DEF NoCV, Goto, window, channel, history
<1>13. ASSUME NEW t \in Tasks, Posted(t) PROVE OneInstall'
  BY <1>13 DEF Posted, Goto, window, channel, history
<1>14. ASSUME NEW t \in Tasks, Return(t) PROVE OneInstall'
  BY <1>14 DEF Return, Goto, channel, history
<1>15. CASE Close
  BY <1>15 DEF Close, Opened
<1>16. CASE UNCHANGED vars
  BY <1>16 DEF vars, window, channel, threads, history
<1> QED BY <1>1, <1>2, <1>3, <1>4, <1>5, <1>6, <1>7, <1>8, <1>9, <1>10, <1>11, <1>12, <1>13,
           <1>14, <1>15, <1>16 DEF Next, UiStep, TaskStep, CallEnds, GoesOn, Post, Threads

\* The token is passed on, lost from a full queue, or taken by the window.
LEMMA LedgerNext ==
    TypeOK /\ TaskThreads /\ UiThread /\ Token /\ Order /\ Kept /\ [Next]_vars
        => Token' /\ Order' /\ Kept'
<1> SUFFICES ASSUME TypeOK, TaskThreads, UiThread, Token, Order, Kept, [Next]_vars
             PROVE  Token' /\ Order' /\ Kept'
  OBVIOUS
<1>0. Len(queue) \in Nat /\ Endings \subseteq 1 .. Len(queue) /\ Workings \subseteq 1 .. Len(queue)
  BY InQueue
<1>a. ASSUME Same, UNCHANGED <<busy, status, overflow, clash>> PROVE Token' /\ Order'
  BY <1>a DEF Same, Token, Order, WorkingMeansBusy
<1> USE WindowAssumption DEF Threads
<1>1. CASE Drain
  <2>1. Token'
    BY <1>1, Shows DEF Token
  <2>2. Order'
    <3>1. ASSUME status' = "Working" PROVE busy' \/ clash'
      <4>1. CASE \E n \in Workings : \A m \in Endings : m <= n
        <5>1. PICK n \in Workings : \A m \in Endings : m <= n
          BY <4>1
        <5>2. Endings = {}
          BY <1>0, <5>1 DEF Order
        <5> QED BY <1>1, <5>1, <5>2, Shows DEF Order
      <4>2. CASE status = "Working" /\ Endings = {}
        BY <1>1, <4>2, Shows DEF Order, WorkingMeansBusy
      <4> QED BY <1>1, <3>1, <4>1, <4>2, Shows
    <3> QED BY <1>1, <3>1, Shows DEF Order, WorkingMeansBusy
  <2>3. Kept'
    BY <1>1, Shows DEF Kept
  <2> QED BY <2>1, <2>2, <2>3
<1>2. CASE UiGo
  <2>1. Token'
    BY <1>2, Passes DEF Token
  <2>2. Order'
    BY <1>2, Passes DEF Order, WorkingMeansBusy
  <2>3. Kept'
    BY <1>2, Passes DEF Kept
  <2> QED BY <2>1, <2>2, <2>3
<1>3. ASSUME NEW k \in {"refresh", "cv"}, ClickTask(k) PROVE Token' /\ Order' /\ Kept'
  <2>1. /\ UNCHANGED <<busy, status, queue, posted, overflow, clash>>
        /\ \E t \in Tasks :
              /\ Begun(t, k)
              /\ \A u \in Threads \ {t} : at'[u] = at[u] /\ kind'[u] = kind[u]
    BY <1>3, Starts
  <2>2. Same
    BY <2>1 DEF Same, Pendings, Pending, Operating, Begun, TaskThreads, Endings, Workings, Positions
  <2>3. Kept'
    BY <2>1, <2>2 DEF Same, Kept, Begun
  <2> QED BY <1>a, <2>1, <2>2, <2>3
<1>4. CASE ClickOperation
  <2>1. /\ ~busy /\ busy' = TRUE
        /\ UNCHANGED <<status, queue, posted, overflow, clash>>
        /\ at[UI] = "idle" /\ Moves(UI, "post")
        /\ kind'[UI] = "operation" /\ \A u \in Tasks : kind'[u] = kind[u]
    BY <1>4 DEF ClickOperation, PostWorking, channel, history, TypeOK, Moves
  <2>2. Endings' = Endings /\ Workings' = Workings /\ Len(queue') = Len(queue)
    BY <2>1 DEF Endings, Workings, Positions
  <2>3. Pendings' = Pendings \cup {UI}
    BY <2>1 DEF Pendings, Pending, Operating, Moves
  <2>4. Token'
    BY <2>1, <2>2, <2>3 DEF Token
  <2>5. Order'
    BY <2>1, <2>2, <2>3 DEF Order, WorkingMeansBusy
  <2>6. Kept'
    BY <2>1, <2>2, <2>3 DEF Kept, Moves
  <2> QED BY <2>4, <2>5, <2>6
<1>5. CASE ClickInstall
  <2>1. /\ ~busy /\ busy' = ~installing /\ clash' = (clash \/ installing)
        /\ UNCHANGED <<status, queue, posted, overflow>>
        /\ at[UI] = "idle" /\ Moves(UI, "post")
        /\ kind'[UI] = (IF installing THEN "none" ELSE "install")
        /\ \A u \in Tasks : kind'[u] = kind[u]
    BY <1>5 DEF ClickInstall, PostWorking, channel, TypeOK, Moves
  <2>2. Endings' = Endings /\ Workings' = Workings /\ Len(queue') = Len(queue)
    BY <2>1 DEF Endings, Workings, Positions
  <2>3. Pendings' = IF installing THEN Pendings ELSE Pendings \cup {UI}
    BY <2>1 DEF Pendings, Pending, Operating, Moves, UiThread
  <2>4. Token'
    BY <2>1, <2>2, <2>3 DEF Token
  <2>5. Order'
    BY <2>1, <2>2, <2>3 DEF Order, WorkingMeansBusy
  <2>6. Kept'
    BY <2>1, <2>2, <2>3 DEF Kept, Moves
  <2> QED BY <2>4, <2>5, <2>6
<1>6. ASSUME NEW t \in Threads, PostSend(t) \/ PostSwap(t) PROVE Token' /\ Order' /\ Kept'
  <2>1. Token'
    BY <1>0, <1>6, Sends DEF Token, Same
  <2>2. Order'
    <3>1. UNCHANGED <<busy, status, clash>>
      BY <1>6, Sends
    <3>2. CASE /\ Endings' = Endings /\ Workings' = Workings \cup {Len(queue) + 1}
               /\ Pendings # {} \/ (clash /\ ~busy)
      <4>1. Endings = {} /\ (busy \/ clash)
        BY <3>2 DEF Token
      <4> QED BY <3>1, <3>2, <4>1 DEF Order, WorkingMeansBusy
    <3>3. CASE Endings' = Endings \cup {Len(queue) + 1} /\ Workings' = Workings
      <4>1. \A n \in Workings : n < Len(queue) + 1
        BY <1>0
      <4> QED BY <3>1, <3>3, <4>1 DEF Order, WorkingMeansBusy
    <3>4. CASE Same
      BY <3>1, <3>4 DEF Order, WorkingMeansBusy, Same
    <3> QED BY <1>6, <3>2, <3>3, <3>4, Sends
  <2>3. Kept'
    BY <1>0, <1>6, Sends DEF Kept, Moves, Same
  <2> QED BY <2>1, <2>2, <2>3
<1>7. ASSUME NEW t \in Threads, PostFull(t) PROVE Token' /\ Order' /\ Kept'
  <2>1. /\ UNCHANGED <<busy, status, queue, posted, kind, clash>>
        /\ overflow' = TRUE /\ at[t] = "post" /\ Moves(t, "full")
    BY <1>7 DEF PostFull, Goto, window, channel, TypeOK, Moves
  <2>2. Same
    BY <2>1 DEF Same, Pendings, Pending, Operating, Endings, Workings, Positions, Moves
  <2>3. Token' /\ Order'
    BY <2>1, <2>2 DEF Same, Token, Order, WorkingMeansBusy
  <2>4. Kept'
    BY <2>1, <2>2 DEF Same, Kept, Moves
  <2> QED BY <2>3, <2>4
<1>8. ASSUME NEW t \in Threads, PostDrop(t) PROVE Token' /\ Order' /\ Kept'
  <2>1. Token'
    BY <1>0, <1>8, Drops DEF Token
  <2>2. Order'
    BY <1>0, <1>8, Drops DEF Order, WorkingMeansBusy
  <2>3. Kept'
    BY <1>0, <1>8, Drops DEF Kept, Moves
  <2> QED BY <2>1, <2>2, <2>3
<1>9. ASSUME NEW t \in Threads, PostNotify(t) PROVE Token' /\ Order' /\ Kept'
  <2>1. /\ UNCHANGED <<busy, status, queue, kind, overflow, clash>>
        /\ posted' = TRUE /\ at[t] = "notify" /\ Moves(t, "after")
    BY <1>9 DEF PostNotify, Goto, window, history, TypeOK, Moves
  <2>2. Same
    BY <2>1 DEF Same, Pendings, Pending, Operating, Endings, Workings, Positions, Moves
  <2>3. Kept'
    BY <2>1, <2>2 DEF Same, Kept, Moves
  <2> QED BY <1>a, <2>1, <2>2, <2>3
<1>10. ASSUME NEW t \in Tasks, Work(t) PROVE Token' /\ Order' /\ Kept'
  <2>1. /\ UNCHANGED <<busy, status, queue, posted, kind, overflow, clash>>
        /\ at[t] = "work" /\ Moves(t, "post")
    BY <1>10, Works
  <2>2. Same
    BY <2>1 DEF Same, Pendings, Pending, Operating, Endings, Workings, Positions, Moves
  <2>3. Kept'
    BY <2>1, <2>2 DEF Same, Kept, Moves
  <2> QED BY <1>a, <2>1, <2>2, <2>3
<1>11. ASSUME NEW t \in Tasks, NoCV(t) PROVE Token' /\ Order' /\ Kept'
  <2>1. /\ UNCHANGED <<busy, status, queue, posted, kind, overflow, clash>>
        /\ at[t] = "work" /\ kind[t] = "cv" /\ Moves(t, "return")
    BY <1>11 DEF NoCV, Goto, window, channel, history, TypeOK, Moves
  <2>2. Same
    BY <2>1 DEF Same, Pendings, Pending, Operating, Endings, Workings, Positions, Moves
  <2>3. Kept'
    BY <2>1, <2>2 DEF Same, Kept, Moves
  <2> QED BY <1>a, <2>1, <2>2, <2>3
<1>12. ASSUME NEW t \in Tasks, Posted(t) PROVE Token' /\ Order' /\ Kept'
  <2>1. /\ UNCHANGED <<busy, status, queue, posted, overflow, clash>>
        /\ at[t] = "after" /\ at'[t] = "return" /\ kind'[t] = kind[t]
        /\ \/ \A u \in Threads \ {t} : at'[u] = at[u] /\ kind'[u] = kind[u]
           \/ \E v \in Tasks :
                 /\ Begun(v, "refresh") /\ v # t
                 /\ \A u \in Threads \ {t, v} : at'[u] = at[u] /\ kind'[u] = kind[u]
    BY <1>12, Follows
  <2>2. Same
    BY <2>1 DEF Same, Pendings, Pending, Operating, Begun, TaskThreads, Endings, Workings, Positions
  <2>3. Kept'
    BY <2>1, <2>2 DEF Same, Kept, Begun
  <2> QED BY <1>a, <2>1, <2>2, <2>3
<1>13. ASSUME NEW t \in Tasks, Return(t) PROVE Token' /\ Order' /\ Kept'
  <2>1. /\ UNCHANGED <<busy, status, queue, posted, overflow, clash>>
        /\ at[t] = "return" /\ Moves(t, "idle")
        /\ kind'[t] = "none" /\ \A u \in Threads \ {t} : kind'[u] = kind[u]
    BY <1>13 DEF Return, Goto, channel, history, TypeOK, Moves
  <2>2. Same
    BY <2>1 DEF Same, Pendings, Pending, Operating, Endings, Workings, Positions, Moves
  <2>3. Kept'
    BY <2>1, <2>2 DEF Same, Kept, Moves
  <2> QED BY <1>a, <2>1, <2>2, <2>3
<1>14. CASE Close
  <2>1. Len(queue') = 0 /\ busy' = FALSE /\ status' = "Checking"
    BY <1>14, Emptied, Zenon DEF Close
  <2>2. \A t \in Threads : \/ at'[t] = "idle" /\ kind'[t] = "none"
                           \/ t \in Tasks /\ at'[t] = "work" /\ kind'[t] = "refresh"
    BY <1>14, Opens DEF Close
  <2>3. Endings' = {} /\ Workings' = {}
    BY <2>1 DEF Endings, Workings, Positions
  <2>4. Pendings' = {}
    BY <2>2 DEF Pendings, Pending, Operating
  <2>5. Token' /\ Order'
    BY <2>1, <2>3, <2>4 DEF Token, Order, WorkingMeansBusy
  <2>6. Kept'
    BY <2>1, <2>2 DEF Kept
  <2> QED BY <2>5, <2>6
<1>15. CASE UNCHANGED vars
  BY <1>15 DEF vars, window, channel, threads, history, Token, Order, Kept, WorkingMeansBusy,
               Pendings, Pending, Operating, Endings, Workings, Positions
<1> QED BY <1>1, <1>2, <1>3, <1>4, <1>5, <1>6, <1>7, <1>8, <1>9, <1>10, <1>11, <1>12, <1>13,
           <1>14, <1>15 DEF Next, UiStep, TaskStep, CallEnds, GoesOn, Post, Threads

LEMMA WindowNext == WindowInv /\ [Next]_vars => WindowInv'
BY TypeNext, TaskNext, UiNext, InstallNext, LedgerNext DEF WindowInv

LEMMA WindowCorrect == Spec => []WindowInv
BY WindowInit, WindowNext, PTL DEF Spec

-----------------------------------------------------------------------------
\* Window, queue and threads keep their types.
THEOREM WindowTypes == Spec => []TypeOK
<1>1. WindowInv => TypeOK
  BY DEF WindowInv
<1> QED BY <1>1, WindowCorrect, PTL

\* One operation works on Docker and the files at a time, also when updates were
\* lost.
THEOREM OneAtATime == Spec => []OneOperation
<1>1. WindowInv => OneOperation
  BY DEF WindowInv, Token, Pendings, OneOperation, Pending
<1> QED BY <1>1, WindowCorrect, PTL

\* The flag of the installation is set exactly while there is one.
THEOREM FlagMeansInstall == Spec => []InstallingMeansInstall
<1>1. WindowInv => InstallingMeansInstall
  BY DEF WindowInv, OneInstall
<1> QED BY <1>1, WindowCorrect, PTL

\* A disabled window waits for an operation or for a queued update that ends it.
THEOREM BusyIsWork == Spec => []BusyMeansWork
<1>1. WindowInv => BusyMeansWork
  <2> SUFFICES ASSUME WindowInv, busy, ~overflow
               PROVE  \/ \E t \in Threads : Operating(t) /\ (t = UI \/ at[t] \in {"work", "post"})
                      \/ /\ \E n \in DOMAIN queue : Ends(queue[n])
                         /\ posted \/ \E t \in Threads : at[t] = "notify"
    BY DEF BusyMeansWork
  <2> USE DEF WindowInv, Kept
  <2>1. CASE Pendings # {}
    <3>1. PICK t \in Threads : Pending(t)
      BY <2>1 DEF Pendings
    <3> QED BY <3>1 DEF Pending
  <2>2. CASE Endings # {}
    <3>1. PICK n \in Positions : Ends(queue[n])
      BY <2>2 DEF Endings
    <3>2. Len(queue) > 0 /\ Positions = DOMAIN queue
      BY <3>1 DEF Positions, TypeOK
    <3> QED BY <3>1, <3>2
  <2> QED BY <2>1, <2>2
<1> QED BY <1>1, WindowCorrect, PTL

\* A window that says "Working" is busy.
THEOREM WorkingIsBusy == Spec => []WorkingMeansBusy
<1>1. WindowInv => WorkingMeansBusy
  BY DEF WindowInv, Order
<1> QED BY <1>1, WindowCorrect, PTL
=============================================================================
