-------------------------- MODULE WifiStack_proof --------------------------
(***************************************************************************)
(* Proofs about WifiStack, for all time limits.  The invariant says who is *)
(* being waited for, what is left of whom, and how far a `wifi stop` that  *)
(* has had no company has got.                                             *)
(***************************************************************************)
EXTENDS WifiStack, TLAPS

Waiting ==
  /\ mode = "down" => at["sup"] = "no" /\ at["radio"] = "no"
  /\ \A b \in Announcers : at[b] = "no" => hook[b] = None
  /\ stop # "look" => at["stop"] = "no"

Owned ==
  /\ mode = "down" => daemon = "none" /\ hand = FALSE
  /\ link = "absent" => addr = FALSE

InUnit ==
  /\ mode # "down" /\ hand = FALSE => unit \in Running
  /\ unit = "active" => mode # "down" /\ hand = FALSE
  /\ \A h \in Leftovers : h.by = TRUE \/ unit \in {"stopping", "failing"}
  /\ stop = "wait" => unit = "stopping"

Clean ==
  clean = TRUE =>
    /\ stop \in {"job", "wait"} => hand = FALSE /\ \A h \in Leftovers : h.by = FALSE
    /\ stop \in {"announce", "look", "flush", "down", "ok"} =>
         mode = "down" /\ Leftovers = {}
    /\ stop \in {"look", "flush", "down", "ok"} => latest = "off"
    /\ stop \in {"down", "ok"} => addr = FALSE
    /\ stop = "ok" => link # "up"

IInv == TypeOK /\ Waiting /\ Owned /\ InUnit /\ LastWord /\ SignalsOwn /\ Clean

(* An announcement leaves one word in the air, unless others are speaking. *)
LEMMA AnnounceTyped ==
  ASSUME TypeOK, NEW b \in Announcers, NEW w \in Words, Announce(b, w)
  PROVE  /\ latest' \in Words \cup {None} /\ muddled' \in BOOLEAN /\ loose' = loose
         /\ hook' \in [Announcers -> Words \cup {None}]
         /\ at' \in [Waiters -> {"no", "limit", "grace"}] /\ left' \in [Waiters -> Nat]
<1>1. muddled' \in BOOLEAN
  <2>1. muddled' = \/ \E c \in Announcers \ {b} : hook[c] # None
                   \/ b = "sup" /\ \E h \in loose : hand' \/ h.by
                   \/ b = "stop" /\ ~clean /\ loose # {}
    BY DEF Announce
  <2> QED  BY <2>1, Zenon
<1> QED  BY <1>1, PollAssumption DEF TypeOK, Announce, Starts, Waiters, Announcers

LEMMA AnnounceWord ==
  ASSUME TypeOK, NEW b \in Announcers, NEW w \in Words, Announce(b, w), hook[b] = None,
         loose # {} => muddled' = TRUE
  PROVE  LastWord'
<1> SUFFICES ASSUME muddled' = FALSE  PROVE Showing' \subseteq {latest', None}
  BY AnnounceTyped DEF LastWord
<1>1. loose = {} /\ \A c \in Announcers \ {b} : hook[c] = None
  BY DEF Announce
<1>2. latest' = w /\ loose' = loose /\ hook'[b] \in {None, w}
      /\ \A c \in Announcers \ {b} : hook'[c] = hook[c]
  BY DEF TypeOK, Announce
<1> QED  BY <1>1, <1>2 DEF Showing

(* A supervisor that announces is by itself, or the word is muddled. *)
LEMMA SupervisorAlone ==
  ASSUME TypeOK, NEW w \in Words, Announce("sup", w), hand' \in BOOLEAN,
         hand' = FALSE => \A h \in loose : h.by = TRUE
  PROVE  loose # {} => muddled' = TRUE
<1> SUFFICES ASSUME NEW h \in loose  PROVE muddled' = TRUE
  OBVIOUS
<1>1. hand' \/ h.by
  OBVIOUS
<1> QED  BY <1>1, Zenon DEF Announce

(* What a supervisor leaves behind when it goes. *)
LEMMA GoneTyped ==
  ASSUME TypeOK, Gone
  PROVE  /\ mode' \in Modes /\ hand' \in BOOLEAN /\ daemon' = "none" /\ program' = None
         /\ hook' \in [Announcers -> Words \cup {None}]
         /\ loose' \subseteq [word : Words, by : BOOLEAN]
         /\ strays' \subseteq [program : Programs, by : BOOLEAN]
         /\ at' \in [Waiters -> {"no", "limit", "grace"}] /\ left' \in [Waiters -> Nat]
<1>1. mode' \in Modes /\ hand' \in BOOLEAN /\ daemon' = "none" /\ program' = None
  BY DEF Gone, NoDaemon, Modes
<1>2. loose' \subseteq [word : Words, by : BOOLEAN]
  BY DEF TypeOK, Gone, Announcers
<1>3. strays' \subseteq [program : Programs, by : BOOLEAN]
  BY DEF TypeOK, Gone
<1>4. /\ hook' \in [Announcers -> Words \cup {None}]
      /\ at' \in [Waiters -> {"no", "limit", "grace"}] /\ left' \in [Waiters -> Nat]
  BY DEF TypeOK, Gone, Announcers, Waiters
<1> QED  BY <1>1, <1>2, <1>3, <1>4

LEMMA NotifyPreserves == IInv /\ (\E b \in Announcers : Notify(b)) => IInv'
<1> SUFFICES ASSUME IInv, \E b \in Announcers : Notify(b)  PROVE IInv'
  OBVIOUS
<1>1. TypeOK'
  BY PollAssumption DEF IInv, TypeOK, Announcers, Waiters, Words, Units, Modes, Programs,
         Notify, HookReturns, HookWaits, Terminates, Kills, Over, Starts, sysd, nic, proc,
         word, cmd
<1>2. Waiting'
  BY DEF IInv, TypeOK, Waiting, Announcers, Waiters, Notify, HookReturns, HookWaits,
         Terminates, Kills, Over, Starts, cmd
<1>3. Owned'
  BY DEF IInv, TypeOK, Waiting, Owned, InUnit, Notify, HookReturns, HookWaits, Terminates,
         Kills, Over, Starts, sysd, nic, proc
<1>4. InUnit'
  BY DEF IInv, TypeOK, Waiting, Owned, InUnit, Units, Leftovers, Running, Notify,
         HookReturns, HookWaits, Terminates, Kills, Over, Starts, sysd, proc, cmd
<1>5. LastWord'
  BY DEF IInv, TypeOK, Waiting, LastWord, Announcers, Waiters, Showing, Notify,
         HookReturns, HookWaits, Terminates, Kills, Over, Starts, word
<1>6. SignalsOwn'
  BY DEF IInv, TypeOK, Waiting, SignalsOwn, Announcers, Waiters, Notify, HookReturns,
         HookWaits, Terminates, Kills, Over, Starts, proc
<1>7. Clean'
  BY DEF IInv, TypeOK, Waiting, Owned, InUnit, Clean, Announcers, Units, Leftovers,
         Notify, HookReturns, HookWaits, Terminates, Kills, Over, Starts, sysd, nic, proc,
         word, cmd
<1> QED  BY <1>1, <1>2, <1>3, <1>4, <1>5, <1>6, <1>7 DEF IInv

LEMMA HookExitsPreserves == IInv /\ (\E b \in Announcers : HookExits(b)) => IInv'
<1> SUFFICES ASSUME IInv, \E b \in Announcers : HookExits(b)  PROVE IInv'
  OBVIOUS
<1>1. TypeOK'
  BY PollAssumption DEF IInv, TypeOK, Announcers, Waiters, Words, Units, Modes, Programs,
         HookExits, sysd, nic, proc, word, cmd
<1>2. Waiting'
  BY DEF IInv, TypeOK, Waiting, Announcers, Waiters, HookExits, cmd
<1>3. Owned'
  BY DEF IInv, TypeOK, Waiting, Owned, InUnit, HookExits, sysd, nic, proc
<1>4. InUnit'
  BY DEF IInv, TypeOK, Waiting, Owned, InUnit, Units, Leftovers, Running, HookExits, sysd,
         proc, cmd
<1>5. LastWord'
  BY DEF IInv, TypeOK, Waiting, LastWord, Announcers, Waiters, Showing, HookExits, word
<1>6. SignalsOwn'
  BY DEF IInv, TypeOK, Waiting, SignalsOwn, Announcers, Waiters, HookExits, proc
<1>7. Clean'
  BY DEF IInv, TypeOK, Waiting, Owned, InUnit, Clean, Announcers, Units, Leftovers,
         HookExits, sysd, nic, proc, word, cmd
<1> QED  BY <1>1, <1>2, <1>3, <1>4, <1>5, <1>6, <1>7 DEF IInv

LEMMA DiesPreserves == IInv /\ (\E h \in Leftovers : Dies(h)) => IInv'
<1> SUFFICES ASSUME IInv, \E h \in Leftovers : Dies(h)  PROVE IInv'
  OBVIOUS
<1>1. TypeOK'
  BY PollAssumption DEF IInv, TypeOK, Announcers, Waiters, Words, Units, Modes, Programs,
         Dies, sysd, nic, word, cmd
<1>2. Waiting'
  BY DEF IInv, TypeOK, Waiting, Announcers, Waiters, Dies, cmd
<1>3. Owned'
  BY DEF IInv, TypeOK, Waiting, Owned, InUnit, Dies, sysd, nic
<1>4. InUnit'
  BY DEF IInv, TypeOK, Waiting, Owned, InUnit, Units, Leftovers, Running, Dies, sysd, cmd
<1>5. LastWord'
  BY DEF IInv, TypeOK, Waiting, LastWord, Announcers, Waiters, Showing, Dies, word
<1>6. SignalsOwn'
  BY DEF IInv, TypeOK, Waiting, SignalsOwn, Announcers, Waiters, Dies
<1>7. Clean'
  BY DEF IInv, TypeOK, Waiting, Owned, InUnit, Clean, Announcers, Units, Leftovers, Dies,
         sysd, nic, word, cmd
<1> QED  BY <1>1, <1>2, <1>3, <1>4, <1>5, <1>6, <1>7 DEF IInv

LEMMA LaunchPreserves == IInv /\ Launch => IInv'
<1> SUFFICES ASSUME IInv, Launch  PROVE IInv'
  OBVIOUS
<1>1. TypeOK'
  <2>1. clean' \in BOOLEAN
    <3>1. clean' = (clean /\ stop = "job" /\ ~hand')
      BY DEF Launch
    <3> QED  BY <3>1, Zenon
  <2>2. /\ Announce("sup", "TryClient") /\ "sup" \in Announcers /\ "TryClient" \in Words
        /\ UNCHANGED <<nic, proc, stop>>
    BY DEF Launch, Announcers, Words, Modes
  <2>3. mode' \in Modes /\ unit' \in Units /\ hand' \in BOOLEAN
    BY DEF IInv, TypeOK, Launch, Modes, Units
  <2> HIDE DEF Launch, Announce
  <2>4. /\ latest' \in Words \cup {None} /\ muddled' \in BOOLEAN /\ loose' = loose
        /\ hook' \in [Announcers -> Words \cup {None}]
        /\ at' \in [Waiters -> {"no", "limit", "grace"}] /\ left' \in [Waiters -> Nat]
    BY <2>2, AnnounceTyped DEF IInv
  <2> QED  BY <2>1, <2>2, <2>3, <2>4 DEF IInv, TypeOK, nic, proc
<1>2. Waiting'
  BY DEF IInv, TypeOK, Waiting, Announcers, Waiters, Launch, Announce, Starts, Running
<1>3. Owned'
  BY DEF IInv, TypeOK, Waiting, Owned, InUnit, Launch, Announce, Starts, Running, nic,
         proc
<1>4. InUnit'
  BY DEF IInv, TypeOK, Waiting, Owned, InUnit, Units, Leftovers, Running, Launch,
         Announce, Starts, proc
<1>5. LastWord'
  <2>1. Announce("sup", "TryClient") /\ "sup" \in Announcers /\ "TryClient" \in Words
    BY DEF Launch, Announcers, Words, Modes
  <2>2. hook["sup"] = None
    BY <2>1 DEF Launch, IInv, Waiting
  <2>3. hand' \in BOOLEAN /\ (hand' = FALSE => \A h \in loose : h.by = TRUE)
    BY DEF Launch, IInv, InUnit, Leftovers
  <2>4. loose # {} => muddled' = TRUE
    BY <2>1, <2>3, SupervisorAlone DEF IInv
  <2> QED  BY <2>1, <2>2, <2>4, AnnounceWord DEF IInv
<1>6. SignalsOwn'
  BY DEF IInv, TypeOK, Waiting, SignalsOwn, Announcers, Waiters, Launch, Announce, Starts,
         Running, proc
<1>7. Clean'
  BY DEF IInv, TypeOK, Waiting, Owned, InUnit, Clean, Announcers, Units, Leftovers,
         Launch, Announce, Starts, Running, nic, proc
<1> QED  BY <1>1, <1>2, <1>3, <1>4, <1>5, <1>6, <1>7 DEF IInv

LEMMA TransitionPreserves == IInv /\ Transition => IInv'
<1> SUFFICES ASSUME IInv, Transition  PROVE IInv'
  OBVIOUS
<1>1. TypeOK'
  <2>1. PICK w \in Words : Announce("sup", w)
    BY DEF Transition, GoesTo, Words, Modes
  <2>2. "sup" \in Announcers
    BY DEF Announcers
  <2>3. /\ latest' \in Words \cup {None} /\ muddled' \in BOOLEAN /\ loose' = loose
        /\ hook' \in [Announcers -> Words \cup {None}]
        /\ at' \in [Waiters -> {"no", "limit", "grace"}] /\ left' \in [Waiters -> Nat]
    BY <2>1, <2>2, AnnounceTyped DEF IInv
  <2>4. mode' \in Modes /\ addr' \in {addr, TRUE}
    BY DEF Transition, GoesTo, Modes
  <2>5. UNCHANGED <<sysd, link, proc, cmd>>
    BY DEF Transition
  <2> QED  BY <2>3, <2>4, <2>5 DEF IInv, TypeOK, sysd, proc, cmd
<1>2. Waiting'
  BY DEF IInv, TypeOK, Waiting, Announcers, Waiters, Transition, GoesTo, Announce, Starts,
         Free, cmd
<1>3. Owned'
  BY DEF IInv, TypeOK, Waiting, Owned, InUnit, Transition, GoesTo, Announce, Starts, Free,
         sysd, proc
<1>4. InUnit'
  BY DEF IInv, TypeOK, Waiting, Owned, InUnit, Units, Leftovers, Running, Transition,
         GoesTo, Announce, Starts, Free, sysd, proc, cmd
<1>5. LastWord'
  <2>1. PICK w \in Words : Announce("sup", w)
    BY DEF Transition, GoesTo, Words, Modes
  <2>2. "sup" \in Announcers /\ hook["sup"] = None
    BY DEF Transition, Free, IInv, Waiting, Announcers
  <2>3. hand' \in BOOLEAN /\ (hand' = FALSE => \A h \in loose : h.by = TRUE)
    BY DEF Transition, Free, IInv, TypeOK, InUnit, Leftovers, Running, sysd
  <2>4. loose # {} => muddled' = TRUE
    BY <2>1, <2>3, SupervisorAlone DEF IInv
  <2> QED  BY <2>1, <2>2, <2>4, AnnounceWord DEF IInv
<1>6. SignalsOwn'
  BY DEF IInv, TypeOK, Waiting, SignalsOwn, Announcers, Waiters, Transition, GoesTo,
         Announce, Starts, Free, proc
<1>7. Clean'
  BY DEF IInv, TypeOK, Waiting, Owned, InUnit, Clean, Announcers, Units, Leftovers,
         Transition, GoesTo, Announce, Starts, Free, sysd, proc, cmd
<1> QED  BY <1>1, <1>2, <1>3, <1>4, <1>5, <1>6, <1>7 DEF IInv

LEMMA ReadyPreserves == IInv /\ Ready => IInv'
<1> SUFFICES ASSUME IInv, Ready  PROVE IInv'
  OBVIOUS
<1>1. TypeOK'
  BY PollAssumption DEF IInv, TypeOK, Announcers, Waiters, Words, Units, Modes, Programs,
         Ready, Free, Running, nic, wait, proc, word, cmd
<1>2. Waiting'
  BY DEF IInv, TypeOK, Waiting, Announcers, Waiters, Ready, Free, Running, wait, cmd
<1>3. Owned'
  BY DEF IInv, TypeOK, Waiting, Owned, InUnit, Ready, Free, Running, nic, proc
<1>4. InUnit'
  BY DEF IInv, TypeOK, Waiting, Owned, InUnit, Units, Leftovers, Running, Ready, Free,
         wait, proc, cmd
<1>5. LastWord'
  BY DEF IInv, TypeOK, Waiting, LastWord, Announcers, Waiters, Showing, Ready, Free,
         Running, wait, word
<1>6. SignalsOwn'
  BY DEF IInv, TypeOK, Waiting, SignalsOwn, Announcers, Waiters, Ready, Free, Running,
         wait, proc
<1>7. Clean'
  BY DEF IInv, TypeOK, Waiting, Owned, InUnit, Clean, Announcers, Units, Leftovers, Ready,
         Free, Running, nic, wait, proc, word, cmd
<1> QED  BY <1>1, <1>2, <1>3, <1>4, <1>5, <1>6, <1>7 DEF IInv

LEMMA SpawnDaemonPreserves == IInv /\ SpawnDaemon => IInv'
<1> SUFFICES ASSUME IInv, SpawnDaemon  PROVE IInv'
  OBVIOUS
<1>1. TypeOK'
  <2>1. addr' \in BOOLEAN /\ program' \in Programs
    BY DEF IInv, TypeOK, SpawnDaemon, Programs
  <2> QED  BY <2>1, NoneAssumption DEF IInv, TypeOK, SpawnDaemon, Free, sysd, wait, word, cmd
<1>2. Waiting'
  BY DEF IInv, TypeOK, Waiting, Announcers, Waiters, SpawnDaemon, Free, wait, cmd
<1>3. Owned'
  BY DEF IInv, TypeOK, Waiting, Owned, InUnit, SpawnDaemon, Free, sysd
<1>4. InUnit'
  BY DEF IInv, TypeOK, Waiting, Owned, InUnit, Units, Leftovers, Running, SpawnDaemon,
         Free, sysd, wait, cmd
<1>5. LastWord'
  BY DEF IInv, TypeOK, Waiting, LastWord, Announcers, Waiters, Showing, SpawnDaemon, Free,
         wait, word
<1>6. SignalsOwn'
  BY DEF IInv, TypeOK, Waiting, SignalsOwn, Announcers, Waiters, SpawnDaemon, Free, wait
<1>7. Clean'
  BY DEF IInv, TypeOK, Waiting, Owned, InUnit, Clean, Announcers, Units, Leftovers,
         SpawnDaemon, Free, sysd, wait, word, cmd
<1> QED  BY <1>1, <1>2, <1>3, <1>4, <1>5, <1>6, <1>7 DEF IInv

LEMMA IsRunningPreserves == IInv /\ IsRunning => IInv'
<1> SUFFICES ASSUME IInv, IsRunning  PROVE IInv'
  OBVIOUS
<1>1. TypeOK'
  BY PollAssumption DEF IInv, TypeOK, Announcers, Waiters, Words, Units, Modes, Programs,
         IsRunning, Free, sysd, nic, wait, word, cmd
<1>2. Waiting'
  BY DEF IInv, TypeOK, Waiting, Announcers, Waiters, IsRunning, Free, wait, cmd
<1>3. Owned'
  BY DEF IInv, TypeOK, Waiting, Owned, InUnit, IsRunning, Free, sysd, nic
<1>4. InUnit'
  BY DEF IInv, TypeOK, Waiting, Owned, InUnit, Units, Leftovers, Running, IsRunning, Free,
         sysd, wait, cmd
<1>5. LastWord'
  BY DEF IInv, TypeOK, Waiting, LastWord, Announcers, Waiters, Showing, IsRunning, Free,
         wait, word
<1>6. SignalsOwn'
  BY DEF IInv, TypeOK, Waiting, SignalsOwn, Announcers, Waiters, IsRunning, Free, wait
<1>7. Clean'
  BY DEF IInv, TypeOK, Waiting, Owned, InUnit, Clean, Announcers, Units, Leftovers,
         IsRunning, Free, sysd, nic, wait, word, cmd
<1> QED  BY <1>1, <1>2, <1>3, <1>4, <1>5, <1>6, <1>7 DEF IInv

LEMMA StopDaemonPreserves == IInv /\ StopDaemon => IInv'
<1> SUFFICES ASSUME IInv, StopDaemon  PROVE IInv'
  OBVIOUS
<1>1. TypeOK'
  BY PollAssumption DEF IInv, TypeOK, Announcers, Waiters, Words, Units, Modes, Programs,
         StopDaemon, NoDaemon, Free, Exited, Starts, sysd, nic, word, cmd
<1>2. Waiting'
  BY DEF IInv, TypeOK, Waiting, Announcers, Waiters, StopDaemon, NoDaemon, Free, Exited,
         Starts, cmd
<1>3. Owned'
  BY DEF IInv, TypeOK, Waiting, Owned, InUnit, StopDaemon, NoDaemon, Free, Exited, Starts,
         sysd, nic
<1>4. InUnit'
  BY DEF IInv, TypeOK, Waiting, Owned, InUnit, Units, Leftovers, Running, StopDaemon,
         NoDaemon, Free, Exited, Starts, sysd, cmd
<1>5. LastWord'
  BY DEF IInv, TypeOK, Waiting, LastWord, Announcers, Waiters, Showing, StopDaemon,
         NoDaemon, Free, Exited, Starts, word
<1>6. SignalsOwn'
  BY DEF IInv, TypeOK, Waiting, SignalsOwn, Announcers, Waiters, StopDaemon, NoDaemon,
         Free, Exited, Starts
<1>7. Clean'
  BY DEF IInv, TypeOK, Waiting, Owned, InUnit, Clean, Announcers, Units, Leftovers,
         StopDaemon, NoDaemon, Free, Exited, Starts, sysd, nic, word, cmd
<1> QED  BY <1>1, <1>2, <1>3, <1>4, <1>5, <1>6, <1>7 DEF IInv

LEMMA AwaitDaemonPreserves == IInv /\ AwaitDaemon => IInv'
<1> SUFFICES ASSUME IInv, AwaitDaemon  PROVE IInv'
  OBVIOUS
<1>1. TypeOK'
  BY PollAssumption DEF IInv, TypeOK, Announcers, Waiters, Words, Units, Modes, Programs,
         AwaitDaemon, NoDaemon, Exited, Over, Starts, sysd, nic, word, cmd
<1>2. Waiting'
  BY DEF IInv, TypeOK, Waiting, Announcers, Waiters, AwaitDaemon, NoDaemon, Exited, Over,
         Starts, cmd
<1>3. Owned'
  BY DEF IInv, TypeOK, Waiting, Owned, InUnit, AwaitDaemon, NoDaemon, Exited, Over,
         Starts, sysd, nic
<1>4. InUnit'
  BY DEF IInv, TypeOK, Waiting, Owned, InUnit, Units, Leftovers, Running, AwaitDaemon,
         NoDaemon, Exited, Over, Starts, sysd, cmd
<1>5. LastWord'
  BY DEF IInv, TypeOK, Waiting, LastWord, Announcers, Waiters, Showing, AwaitDaemon,
         NoDaemon, Exited, Over, Starts, word
<1>6. SignalsOwn'
  BY DEF IInv, TypeOK, Waiting, SignalsOwn, Announcers, Waiters, AwaitDaemon, NoDaemon,
         Exited, Over, Starts
<1>7. Clean'
  BY DEF IInv, TypeOK, Waiting, Owned, InUnit, Clean, Announcers, Units, Leftovers,
         AwaitDaemon, NoDaemon, Exited, Over, Starts, sysd, nic, word, cmd
<1> QED  BY <1>1, <1>2, <1>3, <1>4, <1>5, <1>6, <1>7 DEF IInv

LEMMA KillDaemonPreserves == IInv /\ KillDaemon => IInv'
<1> SUFFICES ASSUME IInv, KillDaemon  PROVE IInv'
  OBVIOUS
<1>1. TypeOK'
  BY PollAssumption DEF IInv, TypeOK, Announcers, Waiters, Words, Units, Modes, Programs,
         KillDaemon, NoDaemon, Over, Starts, sysd, nic, word, cmd
<1>2. Waiting'
  BY DEF IInv, TypeOK, Waiting, Announcers, Waiters, KillDaemon, NoDaemon, Over, Starts,
         cmd
<1>3. Owned'
  BY DEF IInv, TypeOK, Waiting, Owned, InUnit, KillDaemon, NoDaemon, Over, Starts, sysd,
         nic
<1>4. InUnit'
  BY DEF IInv, TypeOK, Waiting, Owned, InUnit, Units, Leftovers, Running, KillDaemon,
         NoDaemon, Over, Starts, sysd, cmd
<1>5. LastWord'
  BY DEF IInv, TypeOK, Waiting, LastWord, Announcers, Waiters, Showing, KillDaemon,
         NoDaemon, Over, Starts, word
<1>6. SignalsOwn'
  BY DEF IInv, TypeOK, Waiting, SignalsOwn, Announcers, Waiters, KillDaemon, NoDaemon,
         Over, Starts
<1>7. Clean'
  BY DEF IInv, TypeOK, Waiting, Owned, InUnit, Clean, Announcers, Units, Leftovers,
         KillDaemon, NoDaemon, Over, Starts, sysd, nic, word, cmd
<1> QED  BY <1>1, <1>2, <1>3, <1>4, <1>5, <1>6, <1>7 DEF IInv

LEMMA DaemonExitsPreserves == IInv /\ DaemonExits => IInv'
<1> SUFFICES ASSUME IInv, DaemonExits  PROVE IInv'
  OBVIOUS
<1>1. TypeOK'
  BY PollAssumption DEF IInv, TypeOK, Announcers, Waiters, Words, Units, Modes, Programs,
         DaemonExits, sysd, nic, wait, word, cmd
<1>2. Waiting'
  BY DEF IInv, TypeOK, Waiting, Announcers, Waiters, DaemonExits, wait, cmd
<1>3. Owned'
  BY DEF IInv, TypeOK, Waiting, Owned, InUnit, DaemonExits, sysd, nic
<1>4. InUnit'
  BY DEF IInv, TypeOK, Waiting, Owned, InUnit, Units, Leftovers, Running, DaemonExits,
         sysd, wait, cmd
<1>5. LastWord'
  BY DEF IInv, TypeOK, Waiting, LastWord, Announcers, Waiters, Showing, DaemonExits, wait,
         word
<1>6. SignalsOwn'
  BY DEF IInv, TypeOK, Waiting, SignalsOwn, Announcers, Waiters, DaemonExits, wait
<1>7. Clean'
  BY DEF IInv, TypeOK, Waiting, Owned, InUnit, Clean, Announcers, Units, Leftovers,
         DaemonExits, sysd, nic, wait, word, cmd
<1> QED  BY <1>1, <1>2, <1>3, <1>4, <1>5, <1>6, <1>7 DEF IInv

LEMMA EndsPreserves == IInv /\ Ends => IInv'
<1> SUFFICES ASSUME IInv, Ends  PROVE IInv'
  OBVIOUS
<1>1. TypeOK'
  BY PollAssumption DEF IInv, TypeOK, Announcers, Waiters, Words, Units, Modes, Programs,
         Ends, Free, Running, nic, wait, proc, word, cmd
<1>2. Waiting'
  BY DEF IInv, TypeOK, Waiting, Announcers, Waiters, Ends, Free, Running, wait, cmd
<1>3. Owned'
  BY DEF IInv, TypeOK, Waiting, Owned, InUnit, Ends, Free, Running, nic, proc
<1>4. InUnit'
  BY DEF IInv, TypeOK, Waiting, Owned, InUnit, Units, Leftovers, Running, Ends, Free,
         wait, proc, cmd
<1>5. LastWord'
  BY DEF IInv, TypeOK, Waiting, LastWord, Announcers, Waiters, Showing, Ends, Free,
         Running, wait, word
<1>6. SignalsOwn'
  BY DEF IInv, TypeOK, Waiting, SignalsOwn, Announcers, Waiters, Ends, Free, Running,
         wait, proc
<1>7. Clean'
  BY DEF IInv, TypeOK, Waiting, Owned, InUnit, Clean, Announcers, Units, Leftovers, Ends,
         Free, Running, nic, wait, proc, word, cmd
<1> QED  BY <1>1, <1>2, <1>3, <1>4, <1>5, <1>6, <1>7 DEF IInv

LEMMA KilledPreserves == IInv /\ Killed => IInv'
<1> SUFFICES ASSUME IInv, Killed  PROVE IInv'
  OBVIOUS
<1>1. TypeOK'
  BY GoneTyped DEF IInv, TypeOK, Killed, Gone, Units, nic, word
<1>2. Waiting'
  BY DEF IInv, TypeOK, Waiting, Announcers, Waiters, Killed, Gone, NoDaemon, Running
<1>3. Owned'
  BY DEF IInv, TypeOK, Waiting, Owned, InUnit, Killed, Gone, NoDaemon, Running, nic
<1>4. InUnit'
  BY DEF IInv, TypeOK, Waiting, Owned, InUnit, Units, Leftovers, Running, Killed, Gone,
         NoDaemon
<1>5. LastWord'
  BY DEF IInv, TypeOK, Waiting, LastWord, Announcers, Waiters, Showing, Killed, Gone,
         NoDaemon, Running, word
<1>6. SignalsOwn'
  BY DEF IInv, TypeOK, Waiting, SignalsOwn, Announcers, Waiters, Killed, Gone, NoDaemon,
         Running
<1>7. Clean'
  BY DEF IInv, TypeOK, Waiting, Owned, InUnit, Clean, Announcers, Units, Leftovers,
         Killed, Gone, NoDaemon, Running, nic, word
<1> QED  BY <1>1, <1>2, <1>3, <1>4, <1>5, <1>6, <1>7 DEF IInv

LEMMA DeactivatedPreserves == IInv /\ Deactivated => IInv'
<1> SUFFICES ASSUME IInv, Deactivated  PROVE IInv'
  OBVIOUS
<1>1. TypeOK'
  BY PollAssumption DEF IInv, TypeOK, Announcers, Waiters, Words, Units, Modes, Programs,
         Deactivated, Ours, Running, nic, wait, proc, word
<1>2. Waiting'
  BY DEF IInv, TypeOK, Waiting, Announcers, Waiters, Deactivated, Ours, Running, wait
<1>3. Owned'
  BY DEF IInv, TypeOK, Waiting, Owned, InUnit, Deactivated, Ours, Running, nic, proc
<1>4. InUnit'
  BY DEF IInv, TypeOK, Waiting, Owned, InUnit, Units, Leftovers, Running, Deactivated,
         Ours, wait, proc
<1>5. LastWord'
  BY DEF IInv, TypeOK, Waiting, LastWord, Announcers, Waiters, Showing, Deactivated, Ours,
         Running, wait, word
<1>6. SignalsOwn'
  BY DEF IInv, TypeOK, Waiting, SignalsOwn, Announcers, Waiters, Deactivated, Ours,
         Running, wait, proc
<1>7. Clean'
  BY DEF IInv, TypeOK, Waiting, Owned, InUnit, Clean, Announcers, Units, Leftovers,
         Deactivated, Ours, Running, nic, wait, proc, word
<1> QED  BY <1>1, <1>2, <1>3, <1>4, <1>5, <1>6, <1>7 DEF IInv

LEMMA NicChangesPreserves == IInv /\ NicChanges => IInv'
<1> SUFFICES ASSUME IInv, NicChanges  PROVE IInv'
  OBVIOUS
<1>1. TypeOK'
  <2>1. addr' \in BOOLEAN
    BY DEF IInv, TypeOK, NicChanges
  <2> QED  BY <2>1, PollAssumption DEF IInv, TypeOK, Announcers, Waiters, Words, Units,
         Modes, Programs, NicChanges, sysd, wait, proc, word, cmd
<1>2. Waiting'
  BY DEF IInv, TypeOK, Waiting, Announcers, Waiters, NicChanges, wait, cmd
<1>3. Owned'
  BY DEF IInv, TypeOK, Waiting, Owned, InUnit, NicChanges, sysd, proc
<1>4. InUnit'
  BY DEF IInv, TypeOK, Waiting, Owned, InUnit, Units, Leftovers, Running, NicChanges,
         sysd, wait, proc, cmd
<1>5. LastWord'
  BY DEF IInv, TypeOK, Waiting, LastWord, Announcers, Waiters, Showing, NicChanges, wait,
         word
<1>6. SignalsOwn'
  BY DEF IInv, TypeOK, Waiting, SignalsOwn, Announcers, Waiters, NicChanges, wait, proc
<1>7. Clean'
  BY DEF IInv, TypeOK, Waiting, Owned, InUnit, Clean, Announcers, Units, Leftovers,
         NicChanges, sysd, wait, proc, word, cmd
<1> QED  BY <1>1, <1>2, <1>3, <1>4, <1>5, <1>6, <1>7 DEF IInv

LEMMA BeginPreserves == IInv /\ Begin => IInv'
<1> SUFFICES ASSUME IInv, Begin  PROVE IInv'
  OBVIOUS
<1>1. TypeOK'
  <2>1. clean' \in BOOLEAN
    BY DEF IInv, TypeOK, Begin
  <2> QED  BY <2>1, PollAssumption DEF IInv, TypeOK, Announcers, Waiters, Words, Units,
         Modes, Programs, Begin, sysd, nic, wait, proc, word
<1>2. Waiting'
  BY DEF IInv, TypeOK, Waiting, Announcers, Waiters, Begin, wait
<1>3. Owned'
  BY DEF IInv, TypeOK, Waiting, Owned, InUnit, Begin, sysd, nic, proc
<1>4. InUnit'
  BY DEF IInv, TypeOK, Waiting, Owned, InUnit, Units, Leftovers, Running, Begin, sysd,
         wait, proc
<1>5. LastWord'
  BY DEF IInv, TypeOK, Waiting, LastWord, Announcers, Waiters, Showing, Begin, wait, word
<1>6. SignalsOwn'
  BY DEF IInv, TypeOK, Waiting, SignalsOwn, Announcers, Waiters, Begin, wait, proc
<1>7. Clean'
  BY DEF IInv, TypeOK, Waiting, Owned, InUnit, Clean, Announcers, Units, Leftovers, Begin,
         sysd, nic, wait, proc, word
<1> QED  BY <1>1, <1>2, <1>3, <1>4, <1>5, <1>6, <1>7 DEF IInv

LEMMA CheckPreserves == IInv /\ Check => IInv'
<1> SUFFICES ASSUME IInv, Check  PROVE IInv'
  OBVIOUS
<1>1. TypeOK'
  BY PollAssumption DEF IInv, TypeOK, Announcers, Waiters, Words, Units, Modes, Programs,
         Check, Running, ByHand, sysd, nic, wait, proc, word
<1>2. Waiting'
  BY DEF IInv, TypeOK, Waiting, Announcers, Waiters, Check, Running, ByHand, wait
<1>3. Owned'
  BY DEF IInv, TypeOK, Waiting, Owned, InUnit, Check, Running, ByHand, sysd, nic, proc
<1>4. InUnit'
  BY DEF IInv, TypeOK, Waiting, Owned, InUnit, Units, Leftovers, Running, Check, ByHand,
         sysd, wait, proc
<1>5. LastWord'
  BY DEF IInv, TypeOK, Waiting, LastWord, Announcers, Waiters, Showing, Check, Running,
         ByHand, wait, word
<1>6. SignalsOwn'
  BY DEF IInv, TypeOK, Waiting, SignalsOwn, Announcers, Waiters, Check, Running, ByHand,
         wait, proc
<1>7. Clean'
  BY DEF IInv, TypeOK, Waiting, Owned, InUnit, Clean, Announcers, Units, Leftovers, Check,
         Running, ByHand, sysd, nic, wait, proc, word
<1> QED  BY <1>1, <1>2, <1>3, <1>4, <1>5, <1>6, <1>7 DEF IInv

LEMMA StopUnitPreserves == IInv /\ StopUnit => IInv'
<1> SUFFICES ASSUME IInv, StopUnit  PROVE IInv'
  OBVIOUS
<1>1. TypeOK'
  <2>1. unit' \in Units /\ stop' \in {"wait", "announce"}
    BY DEF StopUnit, Units
  <2>2. CASE Gone
    BY <2>1, <2>2, GoneTyped DEF IInv, TypeOK, Gone, nic, word
  <2>3. CASE UNCHANGED <<mode, hand, nic, wait, proc, word, clean>>
    BY <2>1, <2>3 DEF IInv, TypeOK, nic, wait, proc, word
  <2> QED  BY <2>2, <2>3 DEF StopUnit
<1>2. Waiting'
  BY DEF IInv, TypeOK, Waiting, Announcers, Waiters, StopUnit, Gone, NoDaemon, Ours,
         Running, wait
<1>3. Owned'
  BY DEF IInv, TypeOK, Waiting, Owned, InUnit, StopUnit, Gone, NoDaemon, Ours, Running,
         nic, proc
<1>4. InUnit'
  BY DEF IInv, TypeOK, Waiting, Owned, InUnit, Units, Leftovers, Running, StopUnit, Gone,
         NoDaemon, Ours, wait, proc
<1>5. LastWord'
  BY DEF IInv, TypeOK, Waiting, LastWord, Announcers, Waiters, Showing, StopUnit, Gone,
         NoDaemon, Ours, Running, wait, word
<1>6. SignalsOwn'
  BY DEF IInv, TypeOK, Waiting, SignalsOwn, Announcers, Waiters, StopUnit, Gone, NoDaemon,
         Ours, Running, wait, proc
<1>7. Clean'
  <2> SUFFICES ASSUME clean = TRUE
      PROVE  /\ stop' \in {"job", "wait"} => hand' = FALSE /\ \A h \in Leftovers' : h.by = FALSE
             /\ stop' \in {"announce", "look", "flush", "down", "ok"} =>
                  mode' = "down" /\ Leftovers' = {}
             /\ stop' \in {"wait", "announce"}
    BY DEF Clean, StopUnit, Gone
  <2>1. stop = "job" /\ hand = FALSE /\ \A h \in Leftovers : h.by = FALSE
    BY DEF IInv, Clean, StopUnit
  <2>2. CASE Gone /\ stop' = "wait"
    BY <2>1, <2>2 DEF Gone, Leftovers
  <2>3. CASE /\ ~Ours
             /\ unit' = IF unit \in {"failing", "stopping"} THEN "stopping" ELSE "inactive"
             /\ stop' = IF unit' = "inactive" THEN "announce" ELSE "wait"
             /\ UNCHANGED <<mode, hand, nic, wait, proc, word, clean>>
    <3>1. mode = "down" /\ Leftovers' = Leftovers
      BY <2>1, <2>3 DEF Ours, Leftovers, wait, proc
    <3>2. CASE unit \in {"failing", "stopping"}
      BY <2>1, <2>3, <3>1, <3>2
    <3>3. CASE unit \notin {"failing", "stopping"}
      BY <2>1, <2>3, <3>1, <3>3 DEF IInv, InUnit
    <3> QED  BY <3>2, <3>3
  <2> QED  BY <2>2, <2>3 DEF StopUnit
<1> QED  BY <1>1, <1>2, <1>3, <1>4, <1>5, <1>6, <1>7 DEF IInv

LEMMA StopFailsPreserves == IInv /\ StopFails => IInv'
<1> SUFFICES ASSUME IInv, StopFails  PROVE IInv'
  OBVIOUS
<1>1. TypeOK'
  <2>1. clean' \in BOOLEAN
    BY DEF IInv, TypeOK, StopFails
  <2> QED  BY <2>1, PollAssumption DEF IInv, TypeOK, Announcers, Waiters, Words, Units,
         Modes, Programs, StopFails, sysd, nic, wait, proc, word
<1>2. Waiting'
  BY DEF IInv, TypeOK, Waiting, Announcers, Waiters, StopFails, wait
<1>3. Owned'
  BY DEF IInv, TypeOK, Waiting, Owned, InUnit, StopFails, sysd, nic, proc
<1>4. InUnit'
  BY DEF IInv, TypeOK, Waiting, Owned, InUnit, Units, Leftovers, Running, StopFails, sysd,
         wait, proc
<1>5. LastWord'
  BY DEF IInv, TypeOK, Waiting, LastWord, Announcers, Waiters, Showing, StopFails, wait,
         word
<1>6. SignalsOwn'
  BY DEF IInv, TypeOK, Waiting, SignalsOwn, Announcers, Waiters, StopFails, wait, proc
<1>7. Clean'
  BY DEF IInv, TypeOK, Waiting, Owned, InUnit, Clean, Announcers, Units, Leftovers,
         StopFails, sysd, nic, wait, proc, word
<1> QED  BY <1>1, <1>2, <1>3, <1>4, <1>5, <1>6, <1>7 DEF IInv

LEMMA AnnounceOffPreserves == IInv /\ AnnounceOff => IInv'
<1> SUFFICES ASSUME IInv, AnnounceOff  PROVE IInv'
  OBVIOUS
<1>1. TypeOK'
  BY PollAssumption DEF IInv, TypeOK, Announcers, Waiters, Words, Units, Modes, Programs,
         AnnounceOff, Announce, Starts, sysd, nic, proc
<1>2. Waiting'
  BY DEF IInv, TypeOK, Waiting, Announcers, Waiters, AnnounceOff, Announce, Starts
<1>3. Owned'
  BY DEF IInv, TypeOK, Waiting, Owned, InUnit, AnnounceOff, Announce, Starts, sysd, nic,
         proc
<1>4. InUnit'
  BY DEF IInv, TypeOK, Waiting, Owned, InUnit, Units, Leftovers, Running, AnnounceOff,
         Announce, Starts, sysd, proc
<1>5. LastWord'
  <2>1. Announce("stop", "off") /\ "stop" \in Announcers /\ "off" \in Words
    BY DEF AnnounceOff, Announcers, Words
  <2>2. hook["stop"] = None
    BY <2>1 DEF AnnounceOff, IInv, Waiting
  <2>3. loose # {} => muddled' = TRUE
    <3>1. loose # {} => clean = FALSE
      BY DEF AnnounceOff, IInv, TypeOK, Clean, Leftovers
    <3> QED  BY <2>1, <3>1, Zenon DEF Announce
  <2> QED  BY <2>1, <2>2, <2>3, AnnounceWord DEF IInv
<1>6. SignalsOwn'
  BY DEF IInv, TypeOK, Waiting, SignalsOwn, Announcers, Waiters, AnnounceOff, Announce,
         Starts, proc
<1>7. Clean'
  BY DEF IInv, TypeOK, Waiting, Owned, InUnit, Clean, Announcers, Units, Leftovers,
         AnnounceOff, Announce, Starts, sysd, nic, proc
<1> QED  BY <1>1, <1>2, <1>3, <1>4, <1>5, <1>6, <1>7 DEF IInv

LEMMA LookPreserves == IInv /\ Look => IInv'
<1> SUFFICES ASSUME IInv, Look  PROVE IInv'
  OBVIOUS
<1>1. TypeOK'
  BY PollAssumption DEF IInv, TypeOK, Announcers, Waiters, Words, Units, Modes, Programs,
         Look, sysd, nic, wait, proc, word
<1>2. Waiting'
  BY DEF IInv, TypeOK, Waiting, Announcers, Waiters, Look, wait
<1>3. Owned'
  BY DEF IInv, TypeOK, Waiting, Owned, InUnit, Look, sysd, nic, proc
<1>4. InUnit'
  BY DEF IInv, TypeOK, Waiting, Owned, InUnit, Units, Leftovers, Running, Look, sysd,
         wait, proc
<1>5. LastWord'
  BY DEF IInv, TypeOK, Waiting, LastWord, Announcers, Waiters, Showing, Look, wait, word
<1>6. SignalsOwn'
  BY DEF IInv, TypeOK, Waiting, SignalsOwn, Announcers, Waiters, Look, wait, proc
<1>7. Clean'
  BY DEF IInv, TypeOK, Waiting, Owned, InUnit, Clean, Announcers, Units, Leftovers, Look,
         sysd, nic, wait, proc, word
<1> QED  BY <1>1, <1>2, <1>3, <1>4, <1>5, <1>6, <1>7 DEF IInv

LEMMA FlushPreserves == IInv /\ Flush => IInv'
<1> SUFFICES ASSUME IInv, Flush  PROVE IInv'
  OBVIOUS
<1>1. TypeOK'
  <2>1. addr' \in BOOLEAN /\ clean' \in BOOLEAN
    BY DEF IInv, TypeOK, Flush
  <2> QED  BY <2>1, PollAssumption DEF IInv, TypeOK, Announcers, Waiters, Words, Units,
         Modes, Programs, Flush, sysd, wait, proc, word
<1>2. Waiting'
  BY DEF IInv, TypeOK, Waiting, Announcers, Waiters, Flush, wait
<1>3. Owned'
  BY DEF IInv, TypeOK, Waiting, Owned, InUnit, Flush, sysd, proc
<1>4. InUnit'
  BY DEF IInv, TypeOK, Waiting, Owned, InUnit, Units, Leftovers, Running, Flush, sysd,
         wait, proc
<1>5. LastWord'
  BY DEF IInv, TypeOK, Waiting, LastWord, Announcers, Waiters, Showing, Flush, wait, word
<1>6. SignalsOwn'
  BY DEF IInv, TypeOK, Waiting, SignalsOwn, Announcers, Waiters, Flush, wait, proc
<1>7. Clean'
  BY DEF IInv, TypeOK, Waiting, Owned, InUnit, Clean, Announcers, Units, Leftovers, Flush,
         sysd, wait, proc, word
<1> QED  BY <1>1, <1>2, <1>3, <1>4, <1>5, <1>6, <1>7 DEF IInv

LEMMA LinkDownPreserves == IInv /\ LinkDown => IInv'
<1> SUFFICES ASSUME IInv, LinkDown  PROVE IInv'
  OBVIOUS
<1>1. TypeOK'
  <2>1. clean' \in BOOLEAN
    BY DEF IInv, TypeOK, LinkDown
  <2> QED  BY <2>1, PollAssumption DEF IInv, TypeOK, Announcers, Waiters, Words, Units,
         Modes, Programs, LinkDown, sysd, wait, proc, word
<1>2. Waiting'
  BY DEF IInv, TypeOK, Waiting, Announcers, Waiters, LinkDown, wait
<1>3. Owned'
  BY DEF IInv, TypeOK, Waiting, Owned, InUnit, LinkDown, sysd, proc
<1>4. InUnit'
  BY DEF IInv, TypeOK, Waiting, Owned, InUnit, Units, Leftovers, Running, LinkDown, sysd,
         wait, proc
<1>5. LastWord'
  BY DEF IInv, TypeOK, Waiting, LastWord, Announcers, Waiters, Showing, LinkDown, wait,
         word
<1>6. SignalsOwn'
  BY DEF IInv, TypeOK, Waiting, SignalsOwn, Announcers, Waiters, LinkDown, wait, proc
<1>7. Clean'
  BY DEF IInv, TypeOK, Waiting, Owned, InUnit, Clean, Announcers, Units, Leftovers,
         LinkDown, sysd, wait, proc, word
<1> QED  BY <1>1, <1>2, <1>3, <1>4, <1>5, <1>6, <1>7 DEF IInv

LEMMA InitEstablishes == Init => IInv
<1> SUFFICES ASSUME Init  PROVE IInv
  OBVIOUS
<1>1. TypeOK
  <2>1. {muddled, clean} \subseteq BOOLEAN /\ addr \in BOOLEAN /\ hand \in BOOLEAN
    BY Zenon DEF Init
  <2> QED
    BY <2>1 DEF Init, TypeOK, Announcers, Waiters, Words, Units, Modes, Programs
<1>2. Waiting /\ LastWord /\ SignalsOwn
  BY DEF Init, Waiting, LastWord, SignalsOwn, Showing, Announcers, Waiters
<1>3. Owned /\ InUnit /\ Clean
  BY DEF Init, Owned, InUnit, Clean, Leftovers
<1> QED  BY <1>1, <1>2, <1>3 DEF IInv

LEMMA StepPreserves == IInv /\ [Next]_vars => IInv'
<1> SUFFICES ASSUME IInv, [Next]_vars  PROVE IInv'
  OBVIOUS
<1>1. CASE UNCHANGED vars
  <2> USE <1>1 DEF vars, sysd, nic, wait, proc, word, cmd
  <2>1. TypeOK'
    BY DEF IInv, TypeOK
  <2>2. Waiting' /\ Owned' /\ SignalsOwn'
    BY DEF IInv, Waiting, Owned, SignalsOwn
  <2>3. InUnit'
    BY DEF IInv, InUnit, Leftovers
  <2>4. LastWord'
    BY DEF IInv, LastWord, Showing
  <2>5. Clean'
    BY DEF IInv, Clean, Leftovers
  <2> QED  BY <2>1, <2>2, <2>3, <2>4, <2>5 DEF IInv
<1>2. CASE Supervisor
  BY <1>2, TransitionPreserves, ReadyPreserves, SpawnDaemonPreserves, IsRunningPreserves,
     StopDaemonPreserves, AwaitDaemonPreserves, KillDaemonPreserves, EndsPreserves
     DEF Supervisor
<1>3. CASE Command
  BY <1>3, CheckPreserves, StopUnitPreserves, AnnounceOffPreserves, LookPreserves,
     FlushPreserves, LinkDownPreserves
     DEF Command
<1>4. CASE Around
  BY <1>4, LaunchPreserves, KilledPreserves, BeginPreserves, StopFailsPreserves,
     DaemonExitsPreserves, NicChangesPreserves, HookExitsPreserves, DiesPreserves
     DEF Around
<1> QED
  BY <1>1, <1>2, <1>3, <1>4, NotifyPreserves, DeactivatedPreserves DEF Next

THEOREM Invariance == Spec => []IInv
  BY InitEstablishes, StepPreserves, PTL DEF Spec

-----------------------------------------------------------------------------
(* The values have their types, and no deadline is missed.                 *)
THEOREM TypeCorrect == Spec => []TypeOK
<1>1. IInv => TypeOK
  BY DEF IInv
<1> QED  BY <1>1, Invariance, PTL

(* A `wifi stop` that succeeds undisturbed leaves nothing running, no      *)
(* address and "off" as the last word.                                     *)
THEOREM StopsCleanly == Spec => []StopIsClean
<1>1. IInv => StopIsClean
  <2> SUFFICES ASSUME IInv, stop = "ok", clean = TRUE
               PROVE  /\ mode = "down" /\ daemon = "none"
                      /\ Leftovers = {} /\ \A b \in Announcers : hook[b] = None
                      /\ link # "up" /\ addr = FALSE /\ latest = "off"
    BY DEF StopIsClean, IInv, TypeOK
  <2>1. /\ mode = "down" /\ Leftovers = {} /\ link # "up" /\ addr = FALSE /\ latest = "off"
    BY DEF IInv, Clean
  <2>2. \A b \in Announcers : hook[b] = None
    BY <2>1 DEF IInv, Waiting, Announcers
  <2> QED  BY <2>1, <2>2 DEF IInv, Owned
<1> QED  BY <1>1, Invariance, PTL

(* No hook with an older word is running, unless announcers overlap.       *)
THEOREM WordsInOrder == Spec => []LastWord
<1>1. IInv => LastWord
  BY DEF IInv
<1> QED  BY <1>1, Invariance, PTL

(* No PID is signalled that may have been given to another process, unless *)
(* SIGCHLD is ignored.                                                     *)
THEOREM SignalsItsOwn == Spec => []SignalsOwn
<1>1. IInv => SignalsOwn
  BY DEF IInv
<1> QED  BY <1>1, Invariance, PTL

-----------------------------------------------------------------------------
(* What is left of a wait, in polls: a hook that overruns its limit is     *)
(* given its grace, and then it is killed.                                 *)
HookCost   == HookLimit + HookGrace + 2
DaemonCost == DaemonGrace + 1

Cost(w) ==
  CASE at[w] = "limit" -> left[w] + HookGrace + 2
    [] at[w] = "grace" -> left[w] + 1
    [] OTHER           -> 0

Longest(w) == IF w = "radio" THEN DaemonCost ELSE HookCost

(* The deadlines that were set, of which none is moved. *)
Deadlines ==
  \A w \in Waiters :
    /\ w = "radio" => at[w] # "limit"
    /\ at[w] = "limit" => left[w] <= HookLimit
    /\ at[w] = "grace" => left[w] <= IF w = "radio" THEN DaemonGrace ELSE HookGrace

OwnWait(w) == IF w = "radio" THEN AwaitDaemon \/ KillDaemon ELSE Notify(w)

(* A wait is begun where there is none; from then on the one who waits     *)
(* brings it closer to its end with each step, and nobody else lengthens   *)
(* it: they leave it as it is, or the program is gone.                     *)
Shortens(w) ==
  /\ OwnWait(w) => Cost(w)' < Cost(w)
  /\ at[w] # "no" /\ ~OwnWait(w) => at'[w] = "no" \/ (at'[w] = at[w] /\ left'[w] = left[w])

(* What is left of a `wifi stop`, in steps of its own. *)
StopPlace ==
  [check |-> HookCost + 7, job |-> HookCost + 6, wait |-> HookCost + 5,
   announce |-> HookCost + 4, look |-> 3, flush |-> 2, down |-> 1, ok |-> 0, err |-> 0]
StopLeft == StopPlace[stop] + Cost("stop")

StopGoesOn ==
  /\ Command \/ Notify("stop") => StopLeft' < StopLeft
  /\ StopLeft' <= StopLeft \/ Begin
  /\ stop' = "check" /\ stop # "check" => Begin

(* Who begins a wait, who goes on with one, and who takes them down.       *)
BeginsWait ==
  \/ \E b \in Announcers : at[b] = "no" /\ Starts(b, "limit", HookLimit)
  \/ at["radio"] = "no" /\ Starts("radio", "grace", DaemonGrace)
DropsWaits ==
  /\ at' = [at EXCEPT !["sup"] = "no", !["radio"] = "no"]
  /\ left' = [left EXCEPT !["sup"] = 0, !["radio"] = 0]
GoesOn == AwaitDaemon \/ KillDaemon \/ \E b \in Announcers : Notify(b)

LEMMA AnnounceBegins ==
  ASSUME NEW b \in Announcers, NEW w, at[b] = "no", Announce(b, w)
  PROVE  UNCHANGED <<at, left>> \/ BeginsWait
BY DEF Announce, BeginsWait

LEMMA WhoWaits ==
  IInv /\ [Next]_vars => UNCHANGED <<at, left>> \/ BeginsWait \/ DropsWaits \/ GoesOn
<1> SUFFICES ASSUME IInv, [Next]_vars
             PROVE  UNCHANGED <<at, left>> \/ BeginsWait \/ DropsWaits \/ GoesOn
  OBVIOUS
<1>1. CASE Launch
  <2>1. at["sup"] = "no"
    BY <1>1 DEF IInv, Waiting, Launch
  <2> QED  BY <1>1, <2>1, AnnounceBegins DEF Launch, Announcers
<1>2. CASE Transition
  <2>1. at["sup"] = "no" /\ \E w : Announce("sup", w)
    BY <1>2 DEF Transition, GoesTo, Free
  <2> QED  BY <2>1, AnnounceBegins DEF Announcers
<1>3. CASE AnnounceOff
  <2>1. at["stop"] = "no"
    BY <1>3 DEF IInv, Waiting, AnnounceOff
  <2> QED  BY <1>3, <2>1, AnnounceBegins DEF AnnounceOff, Announcers
<1>4. CASE StopDaemon
  BY <1>4 DEF StopDaemon, Free, BeginsWait
<1>5. CASE Killed \/ StopUnit
  BY <1>5 DEF Killed, StopUnit, Gone, DropsWaits, wait
<1>6. CASE \/ Ready \/ SpawnDaemon \/ IsRunning \/ Ends \/ Deactivated \/ Begin
           \/ (\E b \in Announcers : HookExits(b)) \/ (\E h \in Leftovers : Dies(h))
           \/ DaemonExits \/ NicChanges
  BY <1>6 DEF Ready, SpawnDaemon, IsRunning, Ends, Deactivated, Begin, HookExits, Dies,
              DaemonExits, NicChanges, wait
<1>7. CASE Check \/ StopFails \/ Look \/ Flush \/ LinkDown \/ UNCHANGED vars
  BY <1>7 DEF Check, StopFails, Look, Flush, LinkDown, vars, wait
<1> QED
  BY <1>1, <1>2, <1>3, <1>4, <1>5, <1>6, <1>7
     DEF Next, Supervisor, Command, Around, GoesOn

LEMMA DeadlinesKept == IInv /\ Deadlines /\ [Next]_vars => Deadlines'
<1> SUFFICES ASSUME IInv, Deadlines, [Next]_vars  PROVE Deadlines'
  OBVIOUS
<1> USE PollAssumption
<1>1. CASE UNCHANGED <<at, left>>
  BY <1>1 DEF Deadlines
<1>2. CASE BeginsWait
  BY <1>2 DEF IInv, TypeOK, Deadlines, BeginsWait, Starts, Announcers, Waiters
<1>3. CASE DropsWaits
  BY <1>3 DEF IInv, TypeOK, Deadlines, DropsWaits, Announcers, Waiters
<1>4. CASE AwaitDaemon \/ KillDaemon
  BY <1>4 DEF IInv, TypeOK, Deadlines, AwaitDaemon, KillDaemon, Over, Starts,
              Announcers, Waiters
<1>5. CASE \E b \in Announcers : Notify(b)
  BY <1>5 DEF IInv, TypeOK, Deadlines, Notify, HookReturns, HookWaits, Terminates, Kills,
              Over, Starts, Announcers, Waiters
<1> QED  BY <1>1, <1>2, <1>3, <1>4, <1>5, WhoWaits DEF GoesOn

LEMMA DeadlinesHold == Spec => []Deadlines
<1>1. Init => Deadlines
  BY PollAssumption DEF Init, Deadlines
<1> QED  BY <1>1, DeadlinesKept, Invariance, PTL DEF Spec

LEMMA CostBounded ==
  ASSUME IInv, Deadlines, NEW w \in Waiters
  PROVE  Cost(w) \in 0..Longest(w)
BY PollAssumption DEF IInv, TypeOK, Deadlines, Cost, Longest, HookCost, DaemonCost, Waiters,
                      Announcers

LEMMA WaitShortens ==
  ASSUME IInv, IInv', [Next]_vars, NEW w \in Waiters
  PROVE  Shortens(w)
<1> USE PollAssumption DEF Waiters, Announcers
<1>1. ASSUME OwnWait(w)  PROVE Cost(w)' < Cost(w)
  <2>1. CASE w = "radio"
    BY <1>1, <2>1 DEF IInv, TypeOK, OwnWait, Cost, AwaitDaemon, KillDaemon, Over, Starts
  <2>2. CASE w # "radio"
    BY <1>1, <2>2 DEF IInv, TypeOK, OwnWait, Cost, Notify, HookReturns, HookWaits,
                      Terminates, Kills, Over, Starts
  <2> QED  BY <2>1, <2>2
<1>2. ASSUME at[w] # "no", ~OwnWait(w)
      PROVE  at'[w] = "no" \/ (at'[w] = at[w] /\ left'[w] = left[w])
  <2>1. CASE BeginsWait
    BY <1>2, <2>1 DEF IInv, TypeOK, BeginsWait, Starts
  <2>2. CASE DropsWaits
    BY <1>2, <2>2 DEF IInv, TypeOK, DropsWaits
  <2>3. CASE AwaitDaemon \/ KillDaemon
    BY <1>2, <2>3 DEF IInv, TypeOK, OwnWait, AwaitDaemon, KillDaemon, Over, Starts
  <2>4. CASE \E b \in Announcers : Notify(b)
    BY <1>2, <2>4 DEF IInv, TypeOK, OwnWait, Notify, HookReturns, HookWaits, Terminates,
                      Kills, Over, Starts
  <2> QED  BY <2>1, <2>2, <2>3, <2>4, WhoWaits DEF GoesOn
<1> QED  BY <1>1, <1>2 DEF Shortens

(* A hook costs its announcer at most RUN_LIMIT, TERM_GRACE and two looks, *)
(* "never a stall" (hook.rs:10), and a daemon its TERM_GRACE: each wait    *)
(* has a last poll that nobody moves, and every poll of it counts.         *)
THEOREM WaitsEnd ==
  Spec => [](\A w \in Waiters : Cost(w) \in 0..Longest(w))
          /\ [][\A w \in Waiters : Shortens(w)]_vars
<1>1. IInv /\ Deadlines => \A w \in Waiters : Cost(w) \in 0..Longest(w)
  BY CostBounded
<1>2. IInv /\ IInv' /\ [Next]_vars => [\A w \in Waiters : Shortens(w)]_vars
  BY WaitShortens
<1> QED  BY <1>1, <1>2, Invariance, DeadlinesHold, PTL DEF Spec

LEMMA StopLeftBounded ==
  ASSUME IInv, Deadlines
  PROVE  StopLeft \in 0..(HookCost + 7)
<1>1. Cost("stop") \in 0..HookCost
  BY CostBounded DEF Waiters, Announcers, Longest
<1>2. stop # "look" => Cost("stop") = 0
  BY DEF IInv, TypeOK, Waiting, Cost, Waiters, Announcers
<1>3. HookCost \in Nat
  BY PollAssumption DEF HookCost
<1> QED  BY <1>1, <1>2, <1>3 DEF IInv, TypeOK, StopLeft, StopPlace

LEMMA StopStep ==
  ASSUME IInv, IInv', Deadlines, Deadlines', [Next]_vars
  PROVE  StopGoesOn
<1> DEFINE C == Cost("stop")
<1>1. HookCost \in Nat /\ C \in 0..HookCost /\ C' \in 0..HookCost
  <2>1. ASSUME IInv, Deadlines  PROVE C \in 0..HookCost
    BY CostBounded, <2>1 DEF Waiters, Announcers, Longest
  <2>2. C' \in 0..HookCost
    BY PollAssumption DEF IInv, TypeOK, Deadlines, Cost, HookCost, Waiters, Announcers
  <2> QED  BY <2>1, <2>2, PollAssumption DEF HookCost
<1>2. (stop # "look" => C = 0) /\ (stop' # "look" => C' = 0)
  BY DEF IInv, TypeOK, Waiting, Cost, Waiters, Announcers
<1>3. CASE Command
  <2>1. \/ stop = "check" /\ stop' \in {"job", "announce"}
        \/ stop = "job" /\ stop' \in {"wait", "announce"}
        \/ stop = "announce" /\ stop' = "look"
        \/ stop = "look" /\ stop' \in {"flush", "ok"}
        \/ stop = "flush" /\ stop' \in {"down", "err"}
        \/ stop = "down" /\ stop' \in {"ok", "err"}
    BY <1>3 DEF Command, Check, StopUnit, AnnounceOff, Look, Flush, LinkDown, Gone
  <2>2. StopLeft' < StopLeft /\ stop' # "check"
    <3> HIDE DEF C
    <3> QED  BY <1>1, <1>2, <2>1 DEF StopLeft, StopPlace, C
  <2> QED
    <3>1. StopLeft \in Nat /\ StopLeft' \in Nat
      BY <1>1, <2>1 DEF StopLeft, StopPlace
    <3> QED  BY <2>2, <3>1 DEF StopGoesOn
<1>4. CASE Notify("stop")
  <2>1. C' < C /\ UNCHANGED stop
    BY <1>4, WaitShortens DEF Shortens, OwnWait, Waiters, Announcers, Notify, cmd
  <2>2. StopLeft = StopPlace[stop] + C /\ StopLeft' = StopPlace[stop] + C'
    BY <2>1 DEF StopLeft, StopPlace, HookCost
  <2>3. StopPlace[stop] \in Nat
    BY <1>1 DEF StopPlace, IInv, TypeOK
  <2> HIDE DEF C
  <2>4. StopLeft' < StopLeft /\ StopLeft' <= StopLeft
    BY <1>1, <2>1, <2>2, <2>3
  <2> QED  BY <2>1, <2>4 DEF StopGoesOn
<1>5. CASE Begin
  <2>1. ~Command
    BY <1>5 DEF Begin, Command, Check, StopUnit, AnnounceOff, Look, Flush, LinkDown
  <2>2. ~Notify("stop")
    BY <1>5 DEF Begin, IInv, Waiting, Notify, HookReturns, HookWaits, Terminates, Kills
  <2> QED  BY <1>5, <2>1, <2>2, Zenon DEF StopGoesOn
<1>6. CASE ~Command /\ ~Notify("stop") /\ ~Begin
  <2>1. UNCHANGED stop \/ (stop = "wait" /\ stop' = "announce")
        \/ (stop \in {"job", "wait"} /\ stop' = "err")
    BY <1>6 DEF Next, Supervisor, Around, Transition, Ready, SpawnDaemon, IsRunning,
         StopDaemon, AwaitDaemon, KillDaemon, Ends, Launch, Killed, StopFails, HookExits,
         Dies, DaemonExits, NicChanges, Notify, Deactivated, vars, cmd
  <2>2. UNCHANGED <<at, left>> \/ (at'["stop"] = at["stop"] /\ left'["stop"] = left["stop"])
    <3>1. CASE Launch \/ Transition
      <4>1. \E v : Announce("sup", v)
        BY <3>1 DEF Launch, Transition, GoesTo
      <4> QED  BY <4>1 DEF IInv, TypeOK, Announce, Starts, Waiters, Announcers
    <3>2. CASE StopDaemon \/ AwaitDaemon \/ KillDaemon \/ Killed
      BY <3>2 DEF IInv, TypeOK, StopDaemon, AwaitDaemon, KillDaemon, Killed, Gone, Starts,
                  Over, Waiters, Announcers
    <3>3. CASE \E b \in Announcers : Notify(b)
      BY <1>6, <3>3 DEF IInv, TypeOK, Notify, HookReturns, HookWaits, Terminates, Kills,
                        Over, Starts, Waiters, Announcers
    <3>4. CASE \/ Ready \/ SpawnDaemon \/ IsRunning \/ Ends \/ Deactivated \/ StopFails
               \/ DaemonExits \/ NicChanges \/ UNCHANGED vars
               \/ (\E b \in Announcers : HookExits(b)) \/ (\E h \in Leftovers : Dies(h))
      BY <3>4 DEF Ready, SpawnDaemon, IsRunning, Ends, Deactivated, StopFails, HookExits,
                  Dies, DaemonExits, NicChanges, wait, vars
    <3> QED  BY <1>6, <3>1, <3>2, <3>3, <3>4 DEF Next, Supervisor, Around
  <2>3. C' = C
    BY <2>2 DEF Cost
  <2> HIDE DEF C
  <2>4. StopLeft = StopPlace[stop] + C /\ StopLeft' = StopPlace'[stop'] + C'
    BY DEF StopLeft, C
  <2>5. StopLeft' <= StopLeft
    BY <1>1, <2>1, <2>3, <2>4 DEF StopPlace, IInv, TypeOK
  <2> QED
    BY <1>6, <2>1, <2>5 DEF StopGoesOn
<1> QED  BY <1>3, <1>4, <1>5, <1>6

(* `wifi stop` is over after at most seven steps of its own and what its   *)
(* hook may cost: no step of it leads back, nothing that happens meanwhile *)
(* sends it back, and it is nowhere else begun.                            *)
THEOREM StopEnds ==
  Spec => [](StopLeft \in 0..(HookCost + 7)) /\ [][StopGoesOn]_vars
<1>1. IInv /\ Deadlines => StopLeft \in 0..(HookCost + 7)
  BY StopLeftBounded
<1>2. IInv /\ IInv' /\ Deadlines /\ Deadlines' /\ [Next]_vars => [StopGoesOn]_vars
  BY StopStep
<1> QED  BY <1>1, <1>2, Invariance, DeadlinesHold, PTL DEF Spec

-----------------------------------------------------------------------------
(* The unit's supervisor never runs beside a hook or a daemon that one of  *)
(* the unit's earlier ones left behind, however that one was killed:       *)
(* systemd has cleared the cgroup before it starts another.  Those of one  *)
(* that was started by hand are in no cgroup of the unit's, and may be     *)
(* met: run() looks for the interface only (supervise.rs:82-104).          *)
UnitsOwn == Ours => \A h \in Leftovers : h.by = TRUE

THEOREM UnitIsCleared == Spec => []UnitsOwn
<1>1. IInv => UnitsOwn
  BY DEF IInv, TypeOK, InUnit, UnitsOwn, Ours, Running
<1> QED  BY <1>1, Invariance, PTL

(* Of supervisors that start beside no daemon, at most one leaves one. *)
Single == \A g, h \in strays : g = h

LEMMA SingleStep == IInv /\ Single /\ ~Crowded /\ [Next]_vars => Single'
<1> SUFFICES ASSUME IInv, Single, ~Crowded, [Next]_vars  PROVE Single'
  OBVIOUS
<1>1. CASE Gone
  <2>1. strays = {}
    BY <1>1 DEF Crowded, Gone
  <2> QED  BY <1>1, <2>1 DEF Single, Gone
<1>2. CASE strays' \subseteq strays
  BY <1>2 DEF Single
<1>3. Gone \/ strays' \subseteq strays
  <2>1. CASE UNCHANGED vars \/ Deactivated \/ \E b \in Announcers : Notify(b)
    BY <2>1 DEF vars, proc, Notify, Deactivated
  <2>2. CASE Supervisor
    BY <2>2 DEF Supervisor, Transition, Ready, SpawnDaemon, IsRunning, StopDaemon,
                AwaitDaemon, KillDaemon, Ends, proc
  <2>3. CASE Command
    BY <2>3 DEF Command, Check, StopUnit, AnnounceOff, Look, Flush, LinkDown, proc
  <2>4. CASE Around
    BY <2>4 DEF Around, Launch, Killed, Begin, StopFails, DaemonExits, NicChanges,
                HookExits, Dies, proc
  <2> QED  BY <2>1, <2>2, <2>3, <2>4 DEF Next
<1> QED  BY <1>1, <1>2, <1>3

(* Who drives the radio, and when that does not change. *)
Drives(p) == IF p = "wpa_supplicant" THEN "station" ELSE "ap"

LEMMA RoleIs ==
  ASSUME IInv
  PROVE  /\ daemon = "alive" => Role = Drives(program)
         /\ daemon # "alive" /\ strays = {} => Role = "idle"
<1>1. CASE daemon = "alive"
  BY <1>1, NoneAssumption DEF IInv, TypeOK, Role, Drives
<1>2. CASE daemon # "alive" /\ strays = {}
  <2>1. {h.program : h \in strays} = {}
    BY <1>2
  <2> QED  BY <1>2, <2>1 DEF Role
<1> QED  BY <1>1, <1>2

LEMMA RoleBecomes ==
  ASSUME IInv'
  PROVE  /\ daemon' = "alive" => Role' = Drives(program')
         /\ daemon' # "alive" /\ strays' = {} => Role' = "idle"
<1>1. CASE daemon' = "alive"
  BY <1>1, NoneAssumption DEF IInv, TypeOK, Role, Drives
<1>2. CASE daemon' # "alive" /\ strays' = {}
  <2>1. {h.program : h \in strays'} = {}
    BY <1>2
  <2> QED  BY <1>2, <2>1 DEF Role
<1> QED  BY <1>1, <1>2

LEMMA StraysDrive ==
  ASSUME IInv, NEW h \in strays, Single, daemon # "alive"
  PROVE  Role = Drives(h.program)
<1>1. strays = {h}
  BY DEF Single
<1>2. {g.program : g \in strays} = {h.program} /\ h.program \in Programs
  BY <1>1 DEF IInv, TypeOK
<1> QED  BY <1>2 DEF Role, Programs, Drives

LEMMA RoleStays == UNCHANGED <<daemon, program, strays>> => UNCHANGED Role
BY DEF Role

USE DEF Service!Next, Service!vars, Service!Launch, Service!Join, Service!Serve,
        Service!Release, Service!Connected, Service!Lost, Service!GiveUp,
        Service!Retry, Service!Stop

LEMMA SupervisorRefines ==
  ASSUME IInv, IInv', ~Crowded, ~Crowded', Supervisor
  PROVE  [Service!Next]_Service!vars
<1> USE RoleIs, RoleBecomes DEF Drives
<1>1. mode # "down" /\ strays = {}
  BY DEF Supervisor, Transition, Ready, SpawnDaemon, IsRunning, StopDaemon, AwaitDaemon,
         KillDaemon, Ends, Free, IInv, TypeOK, Waiting, Waiters, Crowded
<1>2. CASE Transition
  BY <1>1, <1>2, RoleStays DEF Transition, GoesTo, IInv, TypeOK, proc
<1>3. CASE Ready
  BY <1>3, RoleStays DEF Ready, proc
<1>4. CASE SpawnDaemon
  BY <1>1, <1>4 DEF SpawnDaemon, proc
<1>5. CASE IsRunning \/ AwaitDaemon \/ StopDaemon \/ KillDaemon
  <2>1. mode' = mode /\ strays' = strays
    BY <1>5 DEF IsRunning, AwaitDaemon, StopDaemon, KillDaemon, proc
  <2>2. daemon' # "alive" \/ UNCHANGED <<daemon, program>>
    BY <1>5 DEF IsRunning, AwaitDaemon, StopDaemon, KillDaemon, NoDaemon
  <2>3. CASE daemon' # "alive"
    BY <1>1, <2>1, <2>3
  <2>4. CASE UNCHANGED <<daemon, program>>
    BY <2>1, <2>4, RoleStays
  <2> QED  BY <2>2, <2>3, <2>4
<1>6. CASE Ends
  BY <1>6, RoleStays DEF Ends, Free, proc
<1> QED  BY <1>2, <1>3, <1>4, <1>5, <1>6 DEF Supervisor

LEMMA GoneRefines ==
  ASSUME IInv, IInv', ~Crowded, Gone
  PROVE  [Service!Next]_Service!vars
<1>1. mode # "down" /\ mode' = "down" /\ strays = {} /\ daemon' # "alive"
  BY DEF Gone, NoDaemon, Crowded
<1>2. CASE daemon = "alive"
  <2> DEFINE h == [program |-> program, by |-> hand]
  <2>1. Role' = Drives(program)
    <3>1. strays' = {h}
      BY <1>1, <1>2 DEF Gone
    <3>2. {g.program : g \in strays'} = {program} /\ program \in Programs
      BY <1>2, <3>1 DEF IInv, TypeOK
    <3> QED  BY <1>1, <3>2 DEF Role, Programs, Drives
  <2> QED  BY <1>1, <1>2, <2>1, RoleIs
<1>3. CASE daemon # "alive"
  <2>1. strays' = {}
    BY <1>1, <1>3 DEF Gone
  <2> QED  BY <1>1, <1>3, <2>1, RoleIs, RoleBecomes
<1> QED  BY <1>2, <1>3

LEMMA AroundRefines ==
  ASSUME IInv, IInv', ~Crowded, ~Crowded', Single, Single', Around
  PROVE  [Service!Next]_Service!vars
<1>1. CASE Launch
  <2>1. strays = {} /\ daemon = "none"
    BY <1>1 DEF Launch, Crowded, proc, IInv, Owned
  <2> QED  BY <1>1, <2>1, RoleIs, RoleStays DEF Launch, proc
<1>2. CASE Killed
  BY <1>2, GoneRefines DEF Killed
<1>3. CASE Begin \/ StopFails \/ NicChanges \/ \E b \in Announcers : HookExits(b)
  BY <1>3, RoleStays DEF Begin, StopFails, NicChanges, HookExits, proc
<1>4. CASE DaemonExits
  <2>1. mode # "down" /\ strays = {}
    BY <1>4 DEF DaemonExits, IInv, Owned, Crowded
  <2> QED  BY <1>4, <2>1, RoleIs, RoleBecomes DEF DaemonExits, Drives
<1>5. ASSUME NEW h \in Leftovers, Dies(h)  PROVE [Service!Next]_Service!vars
  <2>1. CASE h \notin strays
    BY <1>5, <2>1, RoleStays DEF Dies
  <2>2. CASE h \in strays
    <3>1. mode = "down" /\ daemon = "none" /\ daemon' = "none"
      BY <1>5, <2>2 DEF Dies, Crowded, IInv, Owned
    <3>2. strays' = {}
      BY <1>5, <2>2 DEF Dies, Single
    <3>3. Role # "idle" /\ Role' = "idle"
      BY <2>2, <3>1, <3>2, StraysDrive, RoleBecomes DEF Drives
    <3> QED  BY <1>5, <3>3 DEF Dies
  <2> QED  BY <2>1, <2>2
<1> QED  BY <1>1, <1>2, <1>3, <1>4, <1>5 DEF Around

HIDE DEF Service!Next, Service!vars

LEMMA StepRefines ==
  ASSUME IInv, IInv', ~Crowded, ~Crowded', Single, Single', [Next]_vars
  PROVE  [Service!Next]_Service!vars
<1>1. CASE UNCHANGED vars \/ Deactivated \/ \E b \in Announcers : Notify(b)
  BY <1>1, RoleStays DEF vars, proc, Notify, Deactivated, Service!vars
<1>2. CASE Command
  <2>1. CASE Gone
    BY <2>1, GoneRefines
  <2>2. CASE ~Gone
    BY <1>2, <2>2, RoleStays
       DEF Command, Check, StopUnit, AnnounceOff, Look, Flush, LinkDown, proc, Service!vars
  <2> QED  BY <2>1, <2>2
<1> QED  BY <1>1, <1>2, SupervisorRefines, AroundRefines DEF Next

(* As long as no supervisor is started beside the daemon that another one  *)
(* left - which the code does not look for (supervise.rs:82-104) - it all  *)
(* does what WifiService promises, with the processes, kills and           *)
(* waits: one role on the radio at a time, released in between, and a      *)
(* daemon that outlives its supervisor holds the radio until it exits.     *)
THEOREM Refinement == Spec /\ [](~Crowded) => Service!Spec
<1>1. Init => Service!Init /\ Single
  BY DEF Init, Service!Init, Role, Single
<1>2. IInv /\ IInv' /\ ~Crowded /\ ~Crowded' /\ Single /\ Single' /\ [Next]_vars
        => [Service!Next]_Service!vars
  BY StepRefines
<1>3. IInv /\ ~Crowded /\ Single /\ [Next]_vars => Single'
  BY SingleStep
<1> QED  BY <1>1, <1>2, <1>3, Invariance, PTL DEF Spec, Service!Spec

-----------------------------------------------------------------------------
(* What nobody started by hand is the unit's, also when it is left behind. *)
NoneByHand == \A h \in strays : h.by = FALSE

LEMMA NoneByHandStep ==
  ASSUME IInv, NoneByHand, hand = FALSE, [Next]_vars
  PROVE  NoneByHand'
<1>1. CASE Gone
  BY <1>1 DEF NoneByHand, Gone
<1>2. CASE strays' \subseteq strays
  BY <1>2 DEF NoneByHand
<1>3. Gone \/ strays' \subseteq strays
  <2>1. CASE UNCHANGED vars \/ Deactivated \/ \E b \in Announcers : Notify(b)
    BY <2>1 DEF vars, proc, Notify, Deactivated
  <2>2. CASE Supervisor
    BY <2>2 DEF Supervisor, Transition, Ready, SpawnDaemon, IsRunning, StopDaemon,
                AwaitDaemon, KillDaemon, Ends, proc
  <2>3. CASE Command
    BY <2>3 DEF Command, Check, StopUnit, AnnounceOff, Look, Flush, LinkDown, proc
  <2>4. CASE Around
    BY <2>4 DEF Around, Launch, Killed, Begin, StopFails, DaemonExits, NicChanges,
                HookExits, Dies, proc
  <2> QED  BY <2>1, <2>2, <2>3, <2>4 DEF Next
<1> QED  BY <1>1, <1>2, <1>3

(* When nobody starts a supervisor by hand, WifiService's promise holds    *)
(* whatever is killed, by systemd or by others: the unit's restarts never  *)
(* meet a daemon.                                                          *)
THEOREM UnitRefinement == Spec /\ [](hand = FALSE) => Service!Spec
<1>1. Init => NoneByHand
  BY DEF Init, NoneByHand
<1>2. IInv /\ NoneByHand /\ hand = FALSE /\ [Next]_vars => NoneByHand'
  BY NoneByHandStep
<1>3. IInv /\ NoneByHand /\ hand = FALSE => ~Crowded
  BY DEF IInv, InUnit, NoneByHand, Crowded, Leftovers, Running
<1> QED  BY <1>1, <1>2, <1>3, Invariance, Refinement, PTL DEF Spec

=============================================================================
