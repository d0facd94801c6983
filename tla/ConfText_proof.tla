-------------------------- MODULE ConfText_proof --------------------------
(***************************************************************************)
(* ConfText proved for files of any length: what an edit of a sequence of  *)
(* lines keeps, what is read back afterwards, and that a second edit for   *)
(* the same value changes nothing.                                         *)
(***************************************************************************)
EXTENDS ConfText, SequenceTheorems, WellFoundedInduction, TLAPS

-----------------------------------------------------------------------------
(* A non-empty set of positions has a last one, so that the CHOOSE in      *)
(* ParseValue chooses it.                                                  *)
LEMMA LastPosition ==
  ASSUME NEW n \in Nat, NEW T, T \subseteq 1..n, T # {}
  PROVE  \E i \in T : \A j \in T : j <= i
<1> DEFINE D == {n - i : i \in T}
           R == OpToRel(<, Nat)
<1>1. D \subseteq Nat /\ D # {}
  <2>1. \A i \in T : n - i \in Nat
    OBVIOUS
  <2> QED
    BY <2>1
<1>0. \A x, y \in Nat : x < y => <<x, y>> \in R
  BY DEF OpToRel
<1>r. IsWellFoundedOn(R, Nat)
  BY NatLessThanWellFounded
<1> HIDE DEF R
<1>2. PICK d \in D : \A e \in D : ~ (<<e, d>> \in R)
  BY <1>1, <1>r, WFMin
<1>3. \A e \in D : d <= e
  <2>1. \A e \in D : ~ (e < d)
    BY <1>0, <1>1, <1>2, Zenon
  <2> QED
    BY <1>1, <2>1
<1>4. PICK i \in T : d = n - i
  OBVIOUS
<1>5. \A j \in T : j <= i
  <2> TAKE j \in T
  <2>1. n - j \in D
    OBVIOUS
  <2> QED
    BY <1>3, <1>4, <2>1
<1> QED
  BY <1>5

(* parse_value() reads the last line that assigns the key. *)
LEMMA ParseLast ==
  ASSUME NEW text \in Seq(Line), NEW k, NEW i \in 1..Len(text),
         text[i].key = k,
         \A j \in 1..Len(text) : text[j].key = k => j <= i
  PROVE  ParseValue(text, k) = text[i].val
<1>1. text # NoFile /\ DOMAIN text = 1..Len(text)
  BY NoFileAssumption, LenProperties
<1>2. i \in Assigning(text, k)
  BY <1>1 DEF Assigning
<1>3. (CHOOSE l \in Assigning(text, k) :
         \A j \in Assigning(text, k) : j <= l) = i
  <2>1. \A j \in Assigning(text, k) : j \in 1..Len(text) /\ j <= i
    BY <1>1 DEF Assigning
  <2>2. \A l \in Assigning(text, k) :
          (\A j \in Assigning(text, k) : j <= l) => l = i
    BY <1>2, <2>1
  <2> QED
    BY <1>2, <2>1, <2>2
<1> QED
  BY <1>1, <1>2, <1>3 DEF ParseValue

(* What Replace returns, line by line. *)
LEMMA ReplaceLines ==
  ASSUME NEW S, NEW text \in Seq(S), NEW new \in S
  PROVE  /\ Replace(text, new) \in Seq(S)
         /\ Len(Replace(text, new)) =
              Len(text) + IF HasLine(text, new.key) THEN 0 ELSE 1
         /\ \A i \in 1..Len(text) :
              Replace(text, new)[i] =
                IF Begins(text[i], new.key) THEN new ELSE text[i]
         /\ ~HasLine(text, new.key) => Replace(text, new)[Len(text) + 1] = new
<1>1. DOMAIN text = 1..Len(text) /\ Len(text) \in Nat
      /\ \A i \in 1..Len(text) : text[i] \in S
  BY LenProperties, ElementOfSeq
<1>2. CASE HasLine(text, new.key)
  <2> DEFINE put == [i \in DOMAIN text |->
                       IF Begins(text[i], new.key) THEN new ELSE text[i]]
  <2>1. Replace(text, new) = put
    BY <1>2 DEF Replace
  <2>2. put \in [1..Len(text) -> S]
    BY <1>1
  <2>3. put \in Seq(S) /\ Len(put) = Len(text)
    BY <1>1, <2>2
  <2>4. \A i \in 1..Len(text) :
          put[i] = IF Begins(text[i], new.key) THEN new ELSE text[i]
    BY <1>1
  <2> HIDE DEF put
  <2> QED
    BY <1>1, <1>2, <2>1, <2>3, <2>4
<1>3. CASE ~HasLine(text, new.key)
  <2>1. Replace(text, new) = Append(text, new)
    BY <1>3 DEF Replace
  <2>2. \A i \in 1..Len(text) : ~Begins(text[i], new.key)
    BY <1>1, <1>3 DEF HasLine
  <2> QED
    BY <1>1, <1>3, <2>1, <2>2, AppendProperties
<1> QED
  BY <1>2, <1>3

(* Everything but the lines that begin with the key is kept where it is.   *)
LEMMA ReplaceKeeps ==
  ASSUME NEW S, NEW text \in Seq(S), NEW new \in S
  PROVE  Keeps(text, Replace(text, new), new.key)
<1>1. DOMAIN text = 1..Len(text)
  BY LenProperties
<1> QED
  BY <1>1, ReplaceLines DEF Keeps

(* After an edit there is a line that begins with the key, and every such  *)
(* line is the new one.                                                    *)
LEMMA ReplaceHas ==
  ASSUME NEW S, NEW text \in Seq(S), NEW new \in S, new.flush
  PROVE  /\ HasLine(Replace(text, new), new.key)
         /\ \A i \in DOMAIN Replace(text, new) :
              Begins(Replace(text, new)[i], new.key) =>
                Replace(text, new)[i] = new
<1>0. /\ Len(Replace(text, new)) =
           Len(text) + IF HasLine(text, new.key) THEN 0 ELSE 1
      /\ \A i \in 1..Len(text) :
           Replace(text, new)[i] =
             IF Begins(text[i], new.key) THEN new ELSE text[i]
      /\ ~HasLine(text, new.key) => Replace(text, new)[Len(text) + 1] = new
      /\ Replace(text, new) \in Seq(S)
  BY ReplaceLines
<1> DEFINE r == Replace(text, new)
<1>1. /\ r \in Seq(S) /\ DOMAIN r = 1..Len(r) /\ DOMAIN text = 1..Len(text)
      /\ Len(text) \in Nat
  BY <1>0, LenProperties
<1>2. CASE HasLine(text, new.key)
  <2>1. PICK i \in 1..Len(text) : Begins(text[i], new.key)
    BY <1>1, <1>2 DEF HasLine
  <2>2. Len(r) = Len(text) /\ r[i] = new
    BY <1>0, <1>1, <1>2, <2>1
  <2>3. Begins(new, new.key)
    BY DEF Begins
  <2>4. \A j \in 1..Len(text) : Begins(r[j], new.key) => r[j] = new
    BY <1>0
  <2> HIDE DEF r
  <2>5. HasLine(r, new.key)
    BY <1>1, <2>1, <2>2, <2>3 DEF HasLine
  <2> QED
    BY <1>1, <2>2, <2>4, <2>5 DEF r
<1>3. CASE ~HasLine(text, new.key)
  <2>1. /\ Len(r) = Len(text) + 1 /\ r[Len(text) + 1] = new
        /\ \A j \in 1..Len(text) : Begins(r[j], new.key) => r[j] = new
    BY <1>0, <1>1, <1>3
  <2>2. Begins(new, new.key)
    BY DEF Begins
  <2> HIDE DEF r
  <2>3. HasLine(r, new.key)
    BY <1>1, <2>1, <2>2 DEF HasLine
  <2>4. \A j \in 1..Len(r) : j \in 1..Len(text) \/ j = Len(text) + 1
    BY <1>1, <2>1
  <2> QED
    BY <1>1, <2>1, <2>3, <2>4 DEF r
<1> QED
  BY <1>2, <1>3

(* A text whose lines for a key are all the line to be put there is left   *)
(* as it is.                                                               *)
LEMMA ReplaceSettles ==
  ASSUME NEW S, NEW text \in Seq(S), NEW new \in S,
         HasLine(text, new.key),
         \A i \in DOMAIN text : Begins(text[i], new.key) => text[i] = new
  PROVE  Replace(text, new) = text
<1>0. /\ Len(Replace(text, new)) =
           Len(text) + IF HasLine(text, new.key) THEN 0 ELSE 1
      /\ \A i \in 1..Len(text) :
           Replace(text, new)[i] =
             IF Begins(text[i], new.key) THEN new ELSE text[i]
      /\ ~HasLine(text, new.key) => Replace(text, new)[Len(text) + 1] = new
      /\ Replace(text, new) \in Seq(S)
  BY ReplaceLines
<1>1. Len(Replace(text, new)) = Len(text) /\ DOMAIN text = 1..Len(text)
  BY <1>0, LenProperties
<1>2. \A i \in 1..Len(text) : Replace(text, new)[i] = text[i]
  BY <1>0, <1>1
<1> QED
  BY <1>0, <1>1, <1>2, SeqEqual

-----------------------------------------------------------------------------
(* The lines the two editors put in. *)
LEMMA EntryType ==
  /\ \A v \in Ids : Entry(IdKey, v) \in Line
  /\ \A d \in Doms : Entry(DomKey, d) \in Line
  /\ \A v \in Ids : Entry(Loopback, v) \in HostLine
  /\ Entry(Localhost, Junk) \in HostLine
  BY DEF Entry, Line, HostLine

(* load() returns a valid ID. *)
LEMMA EffectiveType == \A text : Effective(text) \in Ids
  BY DefaultAssumption DEF Effective

(* upsert_key() returns lines, with those for other keys untouched.        *)
LEMMA UpsertKeeps ==
  ASSUME NEW text, IsText(text, Line), NEW k, NEW v, Entry(k, v) \in Line
  PROVE  /\ UpsertKey(text, k, v) \in Seq(Line)
         /\ Keeps(text, UpsertKey(text, k, v), k)
<1>1. CASE text = NoFile
  BY <1>1 DEF UpsertKey, Keeps
<1>2. CASE text # NoFile
  <2>1. text \in Seq(Line) /\ UpsertKey(text, k, v) = Replace(text, Entry(k, v))
    BY <1>2 DEF IsText, UpsertKey
  <2>2. Entry(k, v).key = k
    BY DEF Entry
  <2> QED
    BY <2>1, <2>2, ReplaceLines, ReplaceKeeps
<1> QED
  BY <1>1, <1>2

(* What upsert_key() wrote is what parse_value() reads, unless the key is  *)
(* shadowed.                                                               *)
LEMMA UpsertReads ==
  ASSUME NEW text, IsText(text, Line), NEW k, NEW v, Entry(k, v) \in Line,
         ~Shadowed(text, k)
  PROVE  ParseValue(UpsertKey(text, k, v), k) = v
<1> DEFINE new == Entry(k, v)
           r   == UpsertKey(text, k, v)
<1>0. new.key = k /\ new.val = v
  BY DEF Entry
<1>1. CASE text = NoFile
  <2>1. r = <<new>> /\ r \in Seq(Line) /\ Len(r) = 1 /\ r[1] = new
    BY <1>1 DEF UpsertKey
  <2> HIDE DEF r, new
  <2>2. /\ 1 \in 1..Len(r) /\ r[1].key = k
        /\ \A j \in 1..Len(r) : r[j].key = k => j <= 1
    BY <1>0, <2>1
  <2>3. ParseValue(r, k) = r[1].val
    BY <2>1, <2>2, ParseLast
  <2> QED
    BY <1>0, <2>1, <2>3 DEF r
<1>2. CASE text # NoFile
  <2>1. /\ text \in Seq(Line) /\ r = Replace(text, new)
        /\ DOMAIN text = 1..Len(text) /\ Len(text) \in Nat
    BY <1>2, LenProperties DEF IsText, UpsertKey
  <2>2. /\ r \in Seq(Line)
        /\ Len(r) = Len(text) + IF HasLine(text, k) THEN 0 ELSE 1
        /\ \A i \in 1..Len(text) :
             r[i] = IF Begins(text[i], k) THEN new ELSE text[i]
        /\ ~HasLine(text, k) => r[Len(text) + 1] = new
    <3>1. /\ Replace(text, new) \in Seq(Line)
          /\ Len(Replace(text, new)) =
               Len(text) + IF HasLine(text, new.key) THEN 0 ELSE 1
          /\ \A i \in 1..Len(text) :
               Replace(text, new)[i] =
                 IF Begins(text[i], new.key) THEN new ELSE text[i]
          /\ ~HasLine(text, new.key) =>
               Replace(text, new)[Len(text) + 1] = new
      BY <2>1, ReplaceLines
    <3> HIDE DEF r, new
    <3> QED
      BY <1>0, <2>1, <3>1
  <2> HIDE DEF r, new
  <2>3. CASE ~HasLine(text, k)
    <3>1. /\ Len(text) + 1 \in 1..Len(r) /\ r[Len(text) + 1] = new
          /\ \A j \in 1..Len(r) : j <= Len(text) + 1
      BY <2>1, <2>2, <2>3
    <3> QED
      BY <1>0, <2>2, <3>1, ParseLast DEF r
  <2>4. CASE HasLine(text, k)
    <3> DEFINE H == {i \in 1..Len(text) : Begins(text[i], k)}
    <3>1. H \subseteq 1..Len(text) /\ H # {}
      BY <2>1, <2>4 DEF HasLine
    <3>2. PICK m \in H : \A j \in H : j <= m
      BY <2>1, <3>1, LastPosition
    <3>3. \A i \in 1..Len(text) : text[i].key = k => i <= m
      <4> SUFFICES ASSUME NEW i \in 1..Len(text), text[i].key = k PROVE i <= m
        OBVIOUS
      <4>1. CASE text[i].flush
        BY <3>2, <4>1 DEF Begins
      <4>2. CASE ~text[i].flush
        <5>1. PICK j \in 1..Len(text) : Begins(text[j], k) /\ ~(j < i)
          BY <1>2, <2>1, <2>4, <4>2 DEF Shadowed
        <5> QED
          BY <2>1, <3>2, <5>1
      <4> QED
        BY <4>1, <4>2
    <3>4. \A j \in 1..Len(r) : r[j].key = k => j <= m
      BY <2>2, <2>4, <3>3 DEF Begins
    <3>5. m \in 1..Len(r) /\ r[m] = new
      BY <2>1, <2>2, <2>4, <3>2
    <3> HIDE DEF H
    <3> QED
      BY <1>0, <2>2, <3>4, <3>5, ParseLast DEF r
  <2> QED
    BY <2>3, <2>4
<1> QED
  BY <1>1, <1>2

(* An edit for one key does not change what is read for another, which is  *)
(* what lets RobotIdentity keep a robot.conf as two assignments            *)
(* (upsert_key against parse_value).                                       *)
THEOREM EditsOneAssignment ==
  ASSUME NEW text, IsText(text, Line), NEW k, NEW v, Entry(k, v) \in Line,
         NEW other, other # k
  PROVE  ParseValue(UpsertKey(text, k, v), other) = ParseValue(text, other)
<1> DEFINE new == Entry(k, v)
           r   == UpsertKey(text, k, v)
<1>0. new.key = k
  BY DEF Entry
<1>1. CASE text = NoFile
  <2>1. r = <<new>> /\ r \in Seq(Line) /\ DOMAIN r = {1} /\ r[1] = new
    BY <1>1 DEF UpsertKey
  <2> HIDE DEF r, new
  <2>2. Assigning(r, other) = {}
    BY <1>0, <2>1 DEF Assigning
  <2> QED
    BY <1>1, <2>2 DEF ParseValue, r
<1>2. CASE text # NoFile
  <2>1. /\ text \in Seq(Line) /\ r = Replace(text, new)
        /\ DOMAIN text = 1..Len(text) /\ Len(text) \in Nat
    BY <1>2, LenProperties DEF IsText, UpsertKey
  <2>2. /\ r \in Seq(Line) /\ r # NoFile /\ DOMAIN r = 1..Len(r)
        /\ Len(r) = Len(text) + IF HasLine(text, k) THEN 0 ELSE 1
        /\ \A i \in 1..Len(text) :
             r[i] = IF Begins(text[i], k) THEN new ELSE text[i]
        /\ ~HasLine(text, k) => r[Len(text) + 1] = new
    <3>1. /\ Replace(text, new) \in Seq(Line)
          /\ Len(Replace(text, new)) =
               Len(text) + IF HasLine(text, new.key) THEN 0 ELSE 1
          /\ \A i \in 1..Len(text) :
               Replace(text, new)[i] =
                 IF Begins(text[i], new.key) THEN new ELSE text[i]
          /\ ~HasLine(text, new.key) =>
               Replace(text, new)[Len(text) + 1] = new
      BY <2>1, ReplaceLines
    <3> HIDE DEF r, new
    <3>2. r \in Seq(Line)
      BY <2>1, <3>1
    <3> QED
      BY <1>0, <2>1, <3>1, <3>2, NoFileAssumption, LenProperties
  <2> HIDE DEF r, new
  <2>3. \A i \in 1..Len(text) : text[i].key = other => r[i] = text[i]
    BY <2>2 DEF Begins
  <2>4. \A i \in 1..Len(r) :
          r[i].key = other => i \in 1..Len(text) /\ text[i].key = other
    <3>1. \A i \in 1..Len(r) :
            \/ i \in 1..Len(text)
            \/ ~HasLine(text, k) /\ i = Len(text) + 1
      BY <2>1, <2>2
    <3> QED
      BY <1>0, <2>2, <3>1
  <2>5. Len(text) <= Len(r)
    BY <2>1, <2>2
  <2>6. Assigning(r, other) = Assigning(text, other)
    BY <2>1, <2>2, <2>3, <2>4, <2>5 DEF Assigning
  <2>7. CASE Assigning(text, other) = {}
    BY <1>2, <2>2, <2>6, <2>7 DEF ParseValue, r
  <2>8. CASE Assigning(text, other) # {}
    <3>1. Assigning(text, other) \subseteq 1..Len(text)
      BY <2>1 DEF Assigning
    <3>2. PICK m \in Assigning(text, other) :
            \A j \in Assigning(text, other) : j <= m
      BY <2>1, <2>8, <3>1, LastPosition
    <3>3. m \in 1..Len(text) /\ m \in 1..Len(r) /\ text[m].key = other
      BY <2>1, <2>5, <2>6, <3>1, <3>2, <2>2 DEF Assigning
    <3>4. \A j \in 1..Len(text) : text[j].key = other => j <= m
      BY <2>1, <3>2 DEF Assigning
    <3>5. \A j \in 1..Len(r) : r[j].key = other => j <= m
      BY <2>4, <3>4
    <3>6. r[m] = text[m]
      BY <2>3, <3>3
    <3>7. ParseValue(text, other) = text[m].val
      BY <2>1, <3>3, <3>4, ParseLast
    <3>8. ParseValue(r, other) = r[m].val
      BY <2>2, <3>3, <3>5, <3>6, ParseLast
    <3> QED
      BY <3>6, <3>7, <3>8 DEF r
  <2> QED
    BY <2>7, <2>8
<1> QED
  BY <1>1, <1>2

(* render_hosts_file() returns lines, of which every entry for 127.0.1.1   *)
(* is for `id`; it keeps the others, and rendering again changes nothing.  *)
LEMMA RenderHostsProperties ==
  ASSUME NEW text, IsText(text, HostLine), NEW id \in Ids
  PROVE  /\ RenderHosts(text, id) \in Seq(HostLine)
         /\ Keeps(text, RenderHosts(text, id), Loopback)
         /\ HasLine(RenderHosts(text, id), Loopback)
         /\ \A i \in DOMAIN RenderHosts(text, id) :
              Begins(RenderHosts(text, id)[i], Loopback) =>
                RenderHosts(text, id)[i] = Entry(Loopback, id)
         /\ RenderHosts(RenderHosts(text, id), id) = RenderHosts(text, id)
<1> DEFINE new == Entry(Loopback, id)
           r   == RenderHosts(text, id)
<1>0. new.key = Loopback /\ new.flush /\ new \in HostLine
  BY EntryType DEF Entry
<1>1. /\ r \in Seq(HostLine) /\ Keeps(text, r, Loopback)
      /\ HasLine(r, Loopback)
      /\ \A i \in DOMAIN r : Begins(r[i], Loopback) => r[i] = new
  <2>1. CASE text = NoFile
    <3> DEFINE local == Entry(Localhost, Junk)
    <3>1. r = <<local, new>> /\ local \in HostLine
      BY <2>1, EntryType DEF RenderHosts
    <3>2. ~Begins(local, Loopback) /\ Begins(new, Loopback)
      BY HostsAssumption DEF Begins, Entry
    <3> HIDE DEF local, new
    <3>3. r \in Seq(HostLine) /\ DOMAIN r = {1, 2} /\ r[1] = local /\ r[2] = new
      BY <1>0, <3>1
    <3> HIDE DEF r
    <3> QED
      BY <2>1, <3>2, <3>3 DEF HasLine, Keeps
  <2>2. CASE text # NoFile
    <3>1. text \in Seq(HostLine) /\ r = Replace(text, new)
      BY <2>2 DEF IsText, RenderHosts
    <3>2. Replace(text, new) \in Seq(HostLine)
      BY <1>0, <3>1, ReplaceLines
    <3>3. Keeps(text, Replace(text, new), new.key)
      BY <1>0, <3>1, ReplaceKeeps
    <3>4. /\ HasLine(Replace(text, new), new.key)
          /\ \A i \in DOMAIN Replace(text, new) :
               Begins(Replace(text, new)[i], new.key) =>
                 Replace(text, new)[i] = new
      BY <1>0, <3>1, ReplaceHas
    <3> HIDE DEF r, new
    <3> QED
      BY <1>0, <3>1, <3>2, <3>3, <3>4
  <2> QED
    BY <2>1, <2>2
<1>2. RenderHosts(r, id) = r
  <2>1. RenderHosts(r, id) = Replace(r, new)
    BY <1>1, NoFileAssumption DEF RenderHosts
  <2> HIDE DEF r, new
  <2> QED
    BY <1>0, <1>1, <2>1, ReplaceSettles
<1> QED
  BY <1>1, <1>2

-----------------------------------------------------------------------------
(* Both files are, and stay, sequences of lines. *)
LEMMA InitType == Init => TypeOK
  BY MaxLinesAssumption DEF Init, Texts, TypeOK, IsText

(* Every command leaves sequences of lines. *)
LEMMA NextType == TypeOK /\ [Next]_vars => TypeOK'
<1> SUFFICES ASSUME TypeOK, [Next]_vars PROVE TypeOK'
  OBVIOUS
<1>1. ASSUME NEW v \in Ids, SetRobotId(v) PROVE TypeOK'
  BY <1>1, EntryType, UpsertKeeps, EffectiveType, RenderHostsProperties
     DEF TypeOK, SetRobotId, IsText
<1>2. ASSUME NEW d \in Doms, SetRosDomainId(d) PROVE TypeOK'
  BY <1>2, EntryType, UpsertKeeps DEF TypeOK, SetRosDomainId, IsText
<1>3. CASE Apply
  BY <1>3, EffectiveType, RenderHostsProperties DEF TypeOK, Apply, IsText
<1>4. CASE UNCHANGED vars
  BY <1>4 DEF TypeOK, IsText, vars
<1> QED
  BY <1>1, <1>2, <1>3, <1>4 DEF Next

(* robot.conf and the hosts file are sequences of lines in every reachable *)
(* state, however long they have become.                                   *)
THEOREM TypeCorrect == Spec => []TypeOK
  BY InitType, NextType, PTL DEF Spec

(* What `id set` sets is what is read back, unless it is shadowed.         *)
THEOREM SetsTakeHold == Spec => SetTakesHold
<1>1. ASSUME TypeOK, NEW v \in Ids, SetRobotId(v), ~Shadowed(conf, IdKey)
      PROVE  Effective(conf') = v
  BY <1>1, EntryType, UpsertReads DEF TypeOK, SetRobotId, Effective
<1>2. ASSUME TypeOK, NEW d \in Doms, SetRosDomainId(d),
             ~Shadowed(conf, DomKey)
      PROVE  ParseValue(conf', DomKey) = d
  BY <1>2, EntryType, UpsertReads DEF TypeOK, SetRosDomainId
<1>3. TypeOK /\ [Next]_vars =>
        [/\ \A v \in Ids :
              SetRobotId(v) /\ ~Shadowed(conf, IdKey) => Effective(conf') = v
         /\ \A d \in Doms :
              SetRosDomainId(d) /\ ~Shadowed(conf, DomKey) =>
                ParseValue(conf', DomKey) = d]_vars
  BY <1>1, <1>2
<1> QED
  BY <1>3, TypeCorrect, PTL DEF Spec, SetTakesHold

(* Every line an edit is not about is kept where it is.                    *)
THEOREM OtherLinesAreKept == Spec => KeepsEveryOtherLine
<1>1. ASSUME TypeOK, Next
      PROVE  /\ conf' # conf =>
                  Keeps(conf, conf', IdKey) \/ Keeps(conf, conf', DomKey)
             /\ hosts' # hosts => Keeps(hosts, hosts', Loopback)
  <2>1. ASSUME NEW v \in Ids, SetRobotId(v)
        PROVE  Keeps(conf, conf', IdKey) /\ Keeps(hosts, hosts', Loopback)
    BY <1>1, <2>1, EntryType, UpsertKeeps, EffectiveType, RenderHostsProperties
       DEF TypeOK, SetRobotId
  <2>2. ASSUME NEW d \in Doms, SetRosDomainId(d)
        PROVE  Keeps(conf, conf', DomKey) /\ hosts' = hosts
    BY <1>1, <2>2, EntryType, UpsertKeeps DEF TypeOK, SetRosDomainId
  <2>3. CASE Apply
    BY <1>1, <2>3, EffectiveType, RenderHostsProperties DEF TypeOK, Apply
  <2> QED
    BY <1>1, <2>1, <2>2, <2>3 DEF Next
<1>2. TypeOK /\ [Next]_vars =>
        [/\ conf' # conf =>
              Keeps(conf, conf', IdKey) \/ Keeps(conf, conf', DomKey)
         /\ hosts' # hosts => Keeps(hosts, hosts', Loopback)]_vars
  BY <1>1
<1> QED
  BY <1>2, TypeCorrect, PTL DEF Spec, KeepsEveryOtherLine

(* After `id set robot-id` and `id apply` the hosts file names the robot,  *)
(* and a further apply has nothing to write.                               *)
THEOREM HostsSettle == Spec => Settles
<1> DEFINE Settled == /\ HasLine(hosts', Loopback)
                      /\ \A i \in DOMAIN hosts' :
                           Begins(hosts'[i], Loopback) =>
                             hosts'[i].val = Effective(conf')
                      /\ RenderHosts(hosts', Effective(conf')) = hosts'
<1>1. ASSUME TypeOK, hosts' = RenderHosts(hosts, Effective(conf'))
      PROVE  Settled
  <2>1. Effective(conf') \in Ids /\ IsText(hosts, HostLine)
    BY <1>1, EffectiveType DEF TypeOK
  <2>2. Entry(Loopback, Effective(conf')).val = Effective(conf')
    BY DEF Entry
  <2> QED
    BY <1>1, <2>1, <2>2, RenderHostsProperties
<1>2. (Apply \/ \E v \in Ids : SetRobotId(v)) =>
        hosts' = RenderHosts(hosts, Effective(conf'))
  BY DEF Apply, SetRobotId
<1>3. TypeOK /\ [Next]_vars =>
        [(Apply \/ \E v \in Ids : SetRobotId(v)) => Settled]_vars
  BY <1>1, <1>2
<1> QED
  BY <1>3, TypeCorrect, PTL DEF Spec, Settles

-----------------------------------------------------------------------------
(* RobotIdentity keeps robot.conf as two assignments, each with a value    *)
(* that validates or without one.  That is what is left of the text when   *)
(* it is read, and an edit of the text is an edit of that, unless the key  *)
(* is shadowed.                                                            *)
Unset  == CHOOSE u : u \notin Ids \cup Doms
Absent == CHOOSE c : c \notin Ids \cup [id : Ids \cup {Unset}, dom : Doms \cup {Unset}]

Conf == INSTANCE RobotConf WITH NoFile <- Absent

Valid(v, S) == IF v \in S THEN v ELSE Unset

Assigned(text) ==
  IF text = NoFile THEN Absent
  ELSE [id  |-> Valid(ParseValue(text, IdKey), Ids),
        dom |-> Valid(ParseValue(text, DomKey), Doms)]

Plain(text) == ~Shadowed(text, IdKey) /\ ~Shadowed(text, DomKey)

(* Neither stand-in is mistaken for a value, as RobotConf assumes.         *)
LEMMA StandIns ==
  /\ DefaultId \in Ids
  /\ Unset \notin Ids \cup Doms
  /\ Absent \notin Ids \cup Conf!Assignments
<1>1. \E u : u \notin Ids \cup Doms
  BY NoSetContainsEverything
<1>2. \E c : c \notin Ids \cup [id : Ids \cup {Unset}, dom : Doms \cup {Unset}]
  BY NoSetContainsEverything
<1> QED
  BY <1>1, <1>2, DefaultAssumption DEF Unset, Absent, Conf!Assignments

(* A text is two assignments, and load() finds the same in both.           *)
LEMMA ReadsAgree ==
  \A text : /\ Assigned(text) \in Conf!Assignments \cup {Absent}
            /\ Effective(text) = Conf!Effective(Assigned(text))
<1> TAKE text
<1>1. CASE text = NoFile
  <2>1. ParseValue(text, IdKey) \notin Ids
    BY <1>1, MissingAssumption DEF ParseValue
  <2> QED
    BY <1>1, <2>1 DEF Assigned, Effective, Conf!Effective
<1>2. CASE text # NoFile
  <2>1. Assigned(text) \in Conf!Assignments /\ Assigned(text) # Absent
    BY <1>2, StandIns DEF Assigned, Valid, Conf!Assignments
  <2>2. Assigned(text).id = Valid(ParseValue(text, IdKey), Ids)
    BY <1>2 DEF Assigned
  <2> QED
    BY <2>1, <2>2, StandIns DEF Valid, Effective, Conf!Effective
<1> QED
  BY <1>1, <1>2

(* An edit of the text is the edit of the two assignments that RobotConf   *)
(* says it is.                                                             *)
LEMMA EditsAgree ==
  ASSUME NEW text, IsText(text, Line)
  PROVE  /\ \A v \in Ids : ~Shadowed(text, IdKey) =>
              Assigned(UpsertKey(text, IdKey, v)) =
                Conf!Upsert(Assigned(text), [op |-> "set_id", arg |-> v])
         /\ \A d \in Doms : ~Shadowed(text, DomKey) =>
              Assigned(UpsertKey(text, DomKey, d)) =
                Conf!Upsert(Assigned(text), [op |-> "set_dom", arg |-> d])
<1> DEFINE old == IF Assigned(text) = Absent THEN [id |-> Unset, dom |-> Unset]
                                             ELSE Assigned(text)
<1>1. old = [id  |-> Valid(ParseValue(text, IdKey), Ids),
             dom |-> Valid(ParseValue(text, DomKey), Doms)]
  <2>1. CASE text = NoFile
    <3>1. Valid(ParseValue(text, IdKey), Ids) = Unset
      BY <2>1, MissingAssumption DEF Valid, ParseValue
    <3>2. Valid(ParseValue(text, DomKey), Doms) = Unset
      BY <2>1, MissingAssumption DEF Valid, ParseValue
    <3> QED
      BY <2>1, <3>1, <3>2 DEF Assigned
  <2>2. CASE text # NoFile
    <3>1. Assigned(text) # Absent
      BY <2>2, StandIns DEF Assigned, Valid, Conf!Assignments
    <3> QED
      BY <2>2, <3>1 DEF Assigned
  <2> QED
    BY <2>1, <2>2
<1> HIDE DEF old
<1>2. ASSUME NEW v \in Ids, ~Shadowed(text, IdKey)
      PROVE  Assigned(UpsertKey(text, IdKey, v)) =
               Conf!Upsert(Assigned(text), [op |-> "set_id", arg |-> v])
  <2> DEFINE new == UpsertKey(text, IdKey, v)
  <2>1. new # NoFile
    BY EntryType, UpsertKeeps, NoFileAssumption
  <2>2. ParseValue(new, IdKey) = v
    BY <1>2, EntryType, UpsertReads
  <2>3. ParseValue(new, DomKey) = ParseValue(text, DomKey)
    BY EntryType, EditsOneAssignment, KeysAssumption
  <2> HIDE DEF new
  <2>4. Assigned(new) = [id |-> v, dom |-> Valid(ParseValue(text, DomKey), Doms)]
    BY <2>1, <2>2, <2>3 DEF Assigned, Valid
  <2>5. Conf!Upsert(Assigned(text), [op |-> "set_id", arg |-> v]) = [old EXCEPT !.id = v]
    BY DEF old, Conf!Upsert
  <2> QED
    BY <1>1, <2>4, <2>5 DEF new
<1>3. ASSUME NEW d \in Doms, ~Shadowed(text, DomKey)
      PROVE  Assigned(UpsertKey(text, DomKey, d)) =
               Conf!Upsert(Assigned(text), [op |-> "set_dom", arg |-> d])
  <2> DEFINE new == UpsertKey(text, DomKey, d)
  <2>1. new # NoFile
    BY EntryType, UpsertKeeps, NoFileAssumption
  <2>2. ParseValue(new, DomKey) = d
    BY <1>3, EntryType, UpsertReads
  <2>3. ParseValue(new, IdKey) = ParseValue(text, IdKey)
    BY EntryType, EditsOneAssignment, KeysAssumption
  <2> HIDE DEF new
  <2>4. Assigned(new) = [id |-> Valid(ParseValue(text, IdKey), Ids), dom |-> d]
    BY <2>1, <2>2, <2>3 DEF Assigned, Valid
  <2> DEFINE cmd == [op |-> "set_dom", arg |-> d]
  <2>5. cmd.op # "set_id" /\ cmd.arg = d
    OBVIOUS
  <2> HIDE DEF cmd
  <2>6. Conf!Upsert(Assigned(text), cmd) = [old EXCEPT !.dom = d]
    BY <2>5 DEF old, Conf!Upsert
  <2> QED
    BY <1>1, <2>4, <2>6 DEF new, cmd
<1> QED
  BY <1>2, <1>3

(* An edit never shadows a key that was not shadowed before.               *)
LEMMA NoNewShadow ==
  ASSUME NEW text, IsText(text, Line), NEW k, NEW v, Entry(k, v) \in Line,
         NEW other, ~Shadowed(text, other)
  PROVE  ~Shadowed(UpsertKey(text, k, v), other)
<1> DEFINE new == Entry(k, v)
           r   == UpsertKey(text, k, v)
<1>0. new.key = k /\ new.flush
  BY DEF Entry
<1>1. CASE text = NoFile
  <2>1. r = <<new>>
    BY <1>1 DEF UpsertKey
  <2> HIDE DEF new, r
  <2> QED
    BY <1>0, <2>1 DEF Shadowed, HasLine, Begins, r
<1>2. CASE text # NoFile
  <2>1. /\ text \in Seq(Line) /\ r = Replace(text, new)
        /\ DOMAIN text = 1..Len(text) /\ Len(text) \in Nat
    BY <1>2, LenProperties DEF IsText, UpsertKey
  <2>2. /\ r \in Seq(Line) /\ DOMAIN r = 1..Len(r)
        /\ Len(r) = Len(text) + IF HasLine(text, k) THEN 0 ELSE 1
        /\ \A i \in 1..Len(text) :
             r[i] = IF Begins(text[i], k) THEN new ELSE text[i]
        /\ ~HasLine(text, k) => r[Len(text) + 1] = new
    <3>1. /\ Replace(text, new) \in Seq(Line)
          /\ Len(Replace(text, new)) =
               Len(text) + IF HasLine(text, new.key) THEN 0 ELSE 1
          /\ \A i \in 1..Len(text) :
               Replace(text, new)[i] =
                 IF Begins(text[i], new.key) THEN new ELSE text[i]
          /\ ~HasLine(text, new.key) =>
               Replace(text, new)[Len(text) + 1] = new
      BY <2>1, ReplaceLines
    <3> HIDE DEF r, new
    <3>2. r \in Seq(Line)
      BY <2>1, <3>1
    <3> QED
      BY <1>0, <2>1, <3>1, <3>2, LenProperties
  <2> HIDE DEF r, new
  <2> SUFFICES ASSUME NEW i \in 1..Len(r), r[i].key = other, ~r[i].flush,
                      \A j \in 1..Len(r) : Begins(r[j], other) => j < i,
                      HasLine(r, other)
               PROVE  FALSE
    BY <2>2 DEF Shadowed, r
  <2>3. i \in 1..Len(text) /\ text[i] = r[i]
    BY <1>0, <2>1, <2>2
  <2>4. \A j \in 1..Len(text) : Begins(text[j], other) => Begins(r[j], other) /\ j \in 1..Len(r)
    BY <1>0, <2>1, <2>2 DEF Begins
  <2>5. \A j \in 1..Len(text) : Begins(text[j], other) => j < i
    BY <2>4
  <2>6. HasLine(text, other)
    <3>1. PICK j \in 1..Len(r) : Begins(r[j], other)
      BY <2>2 DEF HasLine
    <3>2. j < i
      BY <3>1
    <3>3. j \in 1..Len(text)
      BY <2>1, <2>2, <2>3, <3>2
    <3>4. CASE Begins(text[j], k)
      <4>1. other = k
        BY <1>0, <2>2, <3>1, <3>3, <3>4 DEF Begins
      <4> QED
        BY <2>1, <3>3, <3>4, <4>1 DEF HasLine
    <3>5. CASE ~Begins(text[j], k)
      BY <2>1, <2>2, <3>1, <3>3, <3>5 DEF HasLine
    <3> QED
      BY <3>4, <3>5
  <2> QED
    BY <1>2, <2>1, <2>3, <2>5, <2>6 DEF Shadowed
<1> QED
  BY <1>1, <1>2

(* A shadow is only ever an operator's: a robot.conf without one is        *)
(* without one for good, so that every later `id set` takes hold.          *)
THEOREM PlainStaysPlain == Spec => [](Plain(conf) => []Plain(conf))
<1>1. TypeOK /\ Plain(conf) /\ [Next]_vars => Plain(conf)'
  <2> SUFFICES ASSUME TypeOK, Plain(conf), [Next]_vars  PROVE Plain(conf')
    BY DEF Plain, Shadowed, HasLine, Begins
  <2>1. ASSUME NEW v \in Ids, SetRobotId(v)  PROVE Plain(conf')
    BY <2>1, EntryType, NoNewShadow DEF TypeOK, Plain, SetRobotId
  <2>2. ASSUME NEW d \in Doms, SetRosDomainId(d)  PROVE Plain(conf')
    BY <2>2, EntryType, NoNewShadow DEF TypeOK, Plain, SetRosDomainId
  <2>3. CASE Apply \/ UNCHANGED vars
    BY <2>3 DEF Apply, vars
  <2> QED
    BY <2>1, <2>2, <2>3 DEF Next
<1> QED
  BY <1>1, TypeCorrect, PTL DEF Spec

(* RobotIdentity's robot.conf is implemented by the text: what load()      *)
(* finds is the same, and so is every edit that is not of a shadowed key   *)
(* (load, set_key, upsert_key).                                            *)
EditsAsAbstracted ==
  [][/\ \A v \in Ids : SetRobotId(v) /\ ~Shadowed(conf, IdKey) =>
          Assigned(conf') = Conf!Upsert(Assigned(conf), [op |-> "set_id", arg |-> v])
     /\ \A d \in Doms : SetRosDomainId(d) /\ ~Shadowed(conf, DomKey) =>
          Assigned(conf') = Conf!Upsert(Assigned(conf), [op |-> "set_dom", arg |-> d])
     /\ Apply => Assigned(conf') = Assigned(conf)]_vars

THEOREM RobotConfImplemented ==
  Spec => [](Effective(conf) = Conf!Effective(Assigned(conf))) /\ EditsAsAbstracted
<1>1. Effective(conf) = Conf!Effective(Assigned(conf))
  BY ReadsAgree
<1>2. TypeOK /\ [Next]_vars =>
        [/\ \A v \in Ids : SetRobotId(v) /\ ~Shadowed(conf, IdKey) =>
              Assigned(conf') = Conf!Upsert(Assigned(conf), [op |-> "set_id", arg |-> v])
         /\ \A d \in Doms : SetRosDomainId(d) /\ ~Shadowed(conf, DomKey) =>
              Assigned(conf') = Conf!Upsert(Assigned(conf), [op |-> "set_dom", arg |-> d])
         /\ Apply => Assigned(conf') = Assigned(conf)]_vars
  BY EditsAgree DEF TypeOK, SetRobotId, SetRosDomainId, Apply
<1> QED
  BY <1>1, <1>2, TypeCorrect, PTL DEF Spec, EditsAsAbstracted

=============================================================================
