--------------------------- MODULE Settings_proof ---------------------------
(***************************************************************************)
(* Proofs about Settings, for all settings, texts and profiles of any      *)
(* length.  The texts come first (what the two halves of the program make  *)
(* of one); the invariant says what the build has carried into the binary. *)
(***************************************************************************)
EXTENDS Settings, TLAPS

LEMMA NumberTyped == ASSUME NEW n \in Nat  PROVE Number(n) \in Text /\ Number(n).num = n
<1>1. <<"digit">> \in Seq(Class)
  BY DEF Class
<1> QED  BY <1>1 DEF Number, Text

LEMMA TextTyped ==
  ASSUME NEW t \in Text  PROVE Trim(t) \in Text /\ StripQuotes(t) \in Text
<1>1. Trim(t) \in Text
  BY DEF Trim, Text
<1>2. [t EXCEPT !.out = t.in, !.quoted = FALSE, !.in = FALSE] \in Text
  BY DEF Text
<1> QED  BY <1>1, <1>2 DEF StripQuotes

(* build.rs and id.rs restate one rule. *)
LEMMA RulesAgree == ASSUME NEW t \in Text  PROVE BuildId(t) <=> RobotId(t)
<1>1. t.word \in Seq(Class) /\ Len(t.word) \in Nat /\ (t.word = <<>> <=> Len(t.word) = 0)
  BY DEF Text
<1>2. Len(t.word) \in 1..IdMax <=> t.word # <<>> /\ Len(t.word) <= IdMax
  BY <1>1, LimitAssumption
<1> QED  BY <1>2 DEF BuildId, RobotId

LEMMA RenderedTyped ==
  ASSUME NEW k \in Knob, NEW t \in Text, Renders(k, t)
  PROVE  /\ Literal(k, t) \in Text
         /\ Kind[k] \in NumberKinds => Literal(k, t).num \in 0..U32
         /\ Kind[k] = "domain" => Literal(k, t).num <= DomainMax
<1>1. CASE Kind[k] \in NumberKinds
  <2>1. t.num \in Nat /\ t.num <= U32
    <3>1. t.num \in Nat \cup {NaN}
      BY DEF Text
    <3>2. CASE Kind[k] = "domain"
      <4>1. t.num # NaN /\ t.num <= 232
        BY <3>2 DEF Renders, Parses, DomainMax
      <4> QED  BY <3>1, <4>1, LimitAssumption DEF U16
    <3>3. CASE Kind[k] \in {"u32", "positive"}
      <4>1. t.num # NaN /\ t.num < U32
        BY <3>3 DEF Renders, Parses
      <4> QED  BY <3>1, <4>1, LimitAssumption
    <3> QED  BY <1>1, <3>2, <3>3 DEF NumberKinds
  <2>2. Kind[k] = "domain" => t.num <= DomainMax
    BY DEF Renders
  <2>3. Literal(k, t) = Number(t.num)
    BY <1>1 DEF Literal
  <2> QED  BY <2>1, <2>2, <2>3, NumberTyped, LimitAssumption
<1>2. CASE Kind[k] \notin NumberKinds
  BY <1>2 DEF Literal, NumberKinds
<1> QED  BY <1>1, <1>2

(* Rendering a value loses nothing that is read of it. *)
LEMMA LiteralKept ==
  ASSUME NEW k \in Knob, NEW t \in Text, Renders(k, t)
  PROVE  Default(k, Literal(k, t)) = Default(k, t)
<1>1. CASE Kind[k] \in NumberKinds
  <2>1. t.num \in Nat
    <3>1. t.num \in Nat \cup {NaN} /\ t.num # NaN
      BY <1>1 DEF Text, Renders, Parses, NumberKinds
    <3> QED  BY <3>1
  <2>2. Literal(k, t).num = t.num
    BY <1>1, <2>1, NumberTyped DEF Literal
  <2> QED  BY <1>1, <2>2 DEF Default, NumberKinds
<1>2. CASE Kind[k] \notin NumberKinds
  BY <1>2 DEF Literal
<1> QED  BY <1>1, <1>2

LEMMA AtLeastOneTyped ==
  ASSUME NEW k \in Knob, NEW n \in Nat
  PROVE  /\ AtLeastOne(k, n) \in Nat
         /\ Kind[k] = "positive" => AtLeastOne(k, n) \in Nat \ {0}
         /\ Kind[k] = "domain" => AtLeastOne(k, n) = n
  BY DEF AtLeastOne

LEMMA DefaultWorks ==
  ASSUME NEW k \in Knob, NEW t \in Text,
         Kind[k] \in NumberKinds => t.num \in Nat,
         Kind[k] = "id" => RobotId(t), Kind[k] = "domain" => t.num <= DomainMax
  PROVE  Default(k, t) \in Text /\ Workable(k, Default(k, t))
<1>1. CASE Kind[k] \in NumberKinds
  <2>1. Default(k, t) = Number(AtLeastOne(k, t.num))
    BY <1>1 DEF Default, NumberKinds, RosDomainId
  <2>2. AtLeastOne(k, t.num) \in Nat
    BY <1>1, AtLeastOneTyped
  <2>3. Default(k, t) \in Text /\ Default(k, t).num = AtLeastOne(k, t.num)
    BY <2>1, <2>2, NumberTyped
  <2>4. Kind[k] = "domain" => AtLeastOne(k, t.num) \in 0..DomainMax
    BY <1>1, AtLeastOneTyped DEF DomainMax
  <2>5. Kind[k] = "positive" => AtLeastOne(k, t.num) \in Nat \ {0}
    BY <1>1, AtLeastOneTyped
  <2> QED  BY <1>1, <2>3, <2>4, <2>5, UnsetAssumption DEF Workable, NumberKinds
<1>2. CASE Kind[k] = "id"
  BY <1>2, UnsetAssumption DEF Default, Workable, NumberKinds
<1>3. CASE Kind[k] \notin NumberKinds \cup {"id"}
  <2>1. Default(k, t) = IF Kind[k] = "optional" THEN Trim(t) ELSE t
    BY <1>3 DEF Default, NumberKinds
  <2>2. Default(k, t) \in Text
    BY <2>1, TextTyped
  <2> QED  BY <1>3, <2>2, UnsetAssumption DEF Workable, NumberKinds
<1> QED  BY <1>1, <1>2, <1>3

LEMMA TakenWorks ==
  ASSUME NEW k \in Knob, NEW t \in Text, Heeded(k, t)
  PROVE  Taken(k, t) \in Text /\ Workable(k, Taken(k, t))
<1>1. CASE Kind[k] \in NumberKinds
  <2>1. t.num \in Nat
    <3>1. Trim(t).num = t.num /\ t.num \in Nat \cup {NaN}
      BY DEF Trim, Text
    <3>2. Trim(t).num # NaN
      BY <1>1 DEF Heeded, Parses, NumberKinds
    <3> QED  BY <3>1, <3>2
  <2>2. AtLeastOne(k, t.num) \in Nat /\ Taken(k, t) = Number(AtLeastOne(k, t.num))
    BY <1>1, <2>1, AtLeastOneTyped DEF Taken
  <2>3. Taken(k, t) \in Text /\ Taken(k, t).num = AtLeastOne(k, t.num)
    BY <2>2, NumberTyped
  <2>4. Kind[k] = "domain" => AtLeastOne(k, t.num) \in 0..DomainMax
    BY <2>1, AtLeastOneTyped DEF Heeded, RosDomainId, DomainMax
  <2>5. Kind[k] = "positive" => AtLeastOne(k, t.num) \in Nat \ {0}
    BY <2>1, AtLeastOneTyped
  <2> QED  BY <1>1, <2>3, <2>4, <2>5, UnsetAssumption DEF Workable, NumberKinds
<1>2. CASE Kind[k] = "id"
  <2>1. Taken(k, t) = t /\ RobotId(t)
    BY <1>2 DEF Taken, Heeded, NumberKinds
  <2> QED  BY <1>2, <2>1, UnsetAssumption DEF Workable
<1>3. CASE Kind[k] \notin NumberKinds \cup {"id"}
  <2>1. Taken(k, t) \in Text
    BY <1>3, TextTyped DEF Taken
  <2> QED  BY <1>3, <2>1, UnsetAssumption DEF Workable, NumberKinds
<1> QED  BY <1>1, <1>2, <1>3

-----------------------------------------------------------------------------
(* The invariant: the map holds the last line of each setting, the         *)
(* constants are rendered from it, and the settings resolved from them.    *)

Written(k) == \E i \in DOMAIN lines : lines[i].key = k

Overridden ==
  \A k \in Knob :
    /\ Written(k) => \E i \in DOMAIN lines :
         LastLine(k, i) /\ overrides[k] = StripQuotes(Trim(lines[i].value))
    /\ ~Written(k) => overrides[k] = Unset

Compiled ==
  step = "built" => \A k \in Knob : Renders(k, Raw(k)) /\ defaults[k] = Literal(k, Raw(k))

Resolved ==
  settings # Nothing =>
    /\ step = "built"
    /\ \A k \in Knob : settings[k] =
         IF env[k] # Unset /\ Heeded(k, env[k]) THEN Taken(k, env[k]) ELSE Default(k, defaults[k])

IInv == TypeOK /\ Overridden /\ Compiled /\ Resolved

LEMMA RawTyped == ASSUME TypeOK, NEW k \in Knob  PROVE Raw(k) \in Text
  BY KnobAssumption DEF TypeOK, Raw

LEMMA NothingTyped == Nothing \in [Knob -> {Unset}]
  BY DEF Nothing

LEMMA Fresh ==
  ASSUME lines = <<>>, overrides = Nothing, defaults = Nothing, env = Nothing,
         settings = Nothing, step = "select"
  PROVE  IInv
<1>1. TypeOK
  BY NothingTyped DEF TypeOK
<1>2. Overridden
  <2>1. \A k \in Knob : ~Written(k) /\ overrides[k] = Unset
    <3>1. DOMAIN lines = {}
      OBVIOUS
    <3> QED  BY <3>1 DEF Written, Nothing
  <2> QED  BY <2>1 DEF Overridden
<1> QED  BY <1>1, <1>2 DEF IInv, Compiled, Resolved

LEMMA InitEstablishes == Init => IInv
  BY Fresh DEF Init

(* A line takes the place of the earlier ones for its key, and of no other. *)
LEMMA AssignPreserves == IInv /\ Assign => IInv'
<1> SUFFICES ASSUME IInv, Assign  PROVE IInv'
  OBVIOUS
<1> PICK key \in Knob, v \in Values :
      /\ Accept(key, v)
      /\ overrides' = [overrides EXCEPT ![key] = StripQuotes(Trim(v))]
  BY DEF Assign
<1> PICK n \in Nat : n = Len(lines) + 1
  BY DEF IInv, TypeOK
<1> DEFINE line == [key |-> key, value |-> v]
<1>1. /\ lines' = Append(lines, line) /\ UNCHANGED <<step, defaults, env, settings>>
      /\ step = "read" /\ lines \in Seq([key : Knob, value : Values])
      /\ line \in [key : Knob, value : Values]
  BY DEF Assign, Accept, IInv, TypeOK
<1>2. /\ Len(lines) \in Nat /\ n = Len(lines) + 1
      /\ DOMAIN lines = 1..Len(lines) /\ DOMAIN lines' = 1..n
      /\ lines'[n] = line
      /\ \A i \in DOMAIN lines : lines'[i] = lines[i]
      /\ lines' \in Seq([key : Knob, value : Values])
  <2> HIDE DEF line
  <2> QED  BY <1>1
<1>3. v \in Text /\ StripQuotes(Trim(v)) \in Text
  BY KnobAssumption, TextTyped
<1>4. TypeOK'
  BY <1>1, <1>2, <1>3 DEF IInv, TypeOK, Nothing
<1>5. Overridden'
  <2> SUFFICES ASSUME NEW k \in Knob
               PROVE  /\ Written(k)' => \E i \in DOMAIN lines' :
                           LastLine(k, i)' /\ overrides'[k] = StripQuotes(Trim(lines'[i].value))
                      /\ ~Written(k)' => overrides'[k] = Unset
    BY DEF Overridden
  <2>1. CASE k = key
    <3>1. LastLine(k, n)'
      BY <1>2, <2>1 DEF LastLine
    <3>2. overrides'[k] = StripQuotes(Trim(lines'[n].value))
      BY <1>2, <2>1 DEF IInv, TypeOK
    <3>3. Written(k)' /\ n \in DOMAIN lines'
      BY <1>2, <2>1 DEF Written
    <3> QED  BY <3>1, <3>2, <3>3
  <2>2. CASE k # key
    <3>1. overrides'[k] = overrides[k]
      BY <2>2 DEF IInv, TypeOK
    <3>2. Written(k)' <=> Written(k)
      BY <1>2, <2>2 DEF Written
    <3>3. \A i \in DOMAIN lines : LastLine(k, i) => LastLine(k, i)' /\ i \in DOMAIN lines'
      BY <1>2, <2>2 DEF LastLine
    <3>4. \A i \in DOMAIN lines : lines'[i].value = lines[i].value
      BY <1>2
    <3> QED  BY <3>1, <3>2, <3>3, <3>4 DEF IInv, Overridden
  <2> QED  BY <2>1, <2>2
<1>6. Compiled' /\ Resolved'
  BY <1>1 DEF IInv, Compiled, Resolved, Nothing
<1> QED  BY <1>4, <1>5, <1>6 DEF IInv

LEMMA GeneratePreserves == IInv /\ Generate => IInv'
<1> SUFFICES ASSUME IInv, Generate  PROVE IInv'
  OBVIOUS
<1>1. UNCHANGED <<lines, overrides, env, settings>> /\ step = "generate"
      /\ settings = Nothing /\ defaults = Nothing
  BY DEF Generate, IInv, Resolved, TypeOK
<1>2. Overridden' /\ Resolved'
  <2>1. Overridden'
    BY <1>1 DEF IInv, Overridden, Written, LastLine
  <2>2. Resolved'
    BY <1>1 DEF Resolved, Nothing
  <2> QED  BY <2>1, <2>2
<1>3. CASE /\ \A k \in Knob : Renders(k, Raw(k))
           /\ defaults' = [k \in Knob |-> Literal(k, Raw(k))] /\ step' = "built"
  <2>1. \A k \in Knob : Raw(k)' = Raw(k) /\ Raw(k) \in Text
    BY <1>1, RawTyped DEF Raw, IInv
  <2>2. Compiled'
    BY <1>3, <2>1 DEF Compiled
  <2>3. /\ defaults' \in [Knob -> Text]
        /\ \A k \in Knob : Kind[k] \in NumberKinds => defaults'[k].num \in 0..U32
    BY <1>3, <2>1, RenderedTyped
  <2>4. TypeOK'
    BY <1>1, <1>3, <2>3 DEF IInv, TypeOK
  <2> QED  BY <1>2, <2>2, <2>4 DEF IInv
<1>4. CASE step' = "failed" /\ UNCHANGED defaults
  <2>1. TypeOK'
    BY <1>1, <1>4 DEF IInv, TypeOK, Nothing
  <2> QED  BY <1>2, <1>4, <2>1 DEF IInv, Compiled
<1> QED  BY <1>3, <1>4 DEF Generate

LEMMA CompiledWorks ==
  ASSUME IInv, step = "built", NEW k \in Knob
  PROVE  /\ Default(k, defaults[k]) \in Text /\ Workable(k, Default(k, defaults[k]))
         /\ Default(k, defaults[k]) = Default(k, Raw(k))
<1>1. Raw(k) \in Text /\ Renders(k, Raw(k)) /\ defaults[k] = Literal(k, Raw(k))
  BY RawTyped DEF IInv, Compiled
<1>2. /\ defaults[k] \in Text
      /\ Kind[k] \in NumberKinds => defaults[k].num \in Nat
      /\ Kind[k] = "domain" => defaults[k].num <= DomainMax
  BY <1>1, RenderedTyped
<1>3. Kind[k] = "id" => RobotId(defaults[k])
  BY <1>1, RulesAgree DEF Renders, Literal, NumberKinds
<1>4. Default(k, defaults[k]) \in Text /\ Workable(k, Default(k, defaults[k]))
  BY <1>2, <1>3, DefaultWorks
<1> QED  BY <1>1, <1>4, LiteralKept

LEMMA StartPreserves == IInv /\ Start => IInv'
<1> SUFFICES ASSUME IInv, Start  PROVE IInv'
  OBVIOUS
<1>1. /\ UNCHANGED <<step, lines, overrides, defaults>> /\ step = "built"
      /\ env' \in [Knob -> Values \cup {Unset}]
  BY KnobAssumption DEF Start
<1>2. \A k \in Knob : settings'[k] =
        IF env'[k] # Unset /\ Heeded(k, env'[k]) THEN Taken(k, env'[k]) ELSE Default(k, defaults[k])
  BY DEF Start
<1>3. \A k \in Knob : settings'[k] \in Text
  <2> SUFFICES ASSUME NEW k \in Knob  PROVE settings'[k] \in Text
    OBVIOUS
  <2>1. CASE env'[k] # Unset /\ Heeded(k, env'[k])
    <3>1. env'[k] \in Text
      BY <1>1, <2>1, KnobAssumption
    <3> QED  BY <1>2, <2>1, <3>1, TakenWorks
  <2>2. CASE ~(env'[k] # Unset /\ Heeded(k, env'[k]))
    BY <1>1, <1>2, <2>2, CompiledWorks
  <2> QED  BY <2>1, <2>2
<1>4. settings' \in [Knob -> Text \cup {Unset, Panic}]
  BY <1>3 DEF Start
<1>5. TypeOK'
  BY <1>1, <1>4 DEF IInv, TypeOK, Nothing
<1>6. Overridden' /\ Compiled'
  BY <1>1 DEF IInv, Overridden, Compiled, Written, LastLine, Raw
<1>7. Resolved'
  BY <1>1, <1>2 DEF Resolved
<1> QED  BY <1>5, <1>6, <1>7 DEF IInv

LEMMA StepPreserves == IInv /\ [Next]_vars => IInv'
<1> SUFFICES ASSUME IInv, [Next]_vars  PROVE IInv'
  OBVIOUS
<1>1. CASE UNCHANGED vars
  BY <1>1 DEF vars, IInv, TypeOK, Overridden, Compiled, Resolved, Written, LastLine, Raw, Nothing
<1>2. CASE Select \/ Refuse \/ EndOfProfile
  <2>1. /\ UNCHANGED <<lines, overrides, defaults, env, settings>>
        /\ step # "built" /\ step' \in {"read", "generate", "failed"}
    BY <1>2 DEF Select, Refuse, EndOfProfile
  <2>2. TypeOK'
    BY <2>1 DEF IInv, TypeOK, Nothing
  <2>3. Overridden'
    BY <2>1 DEF IInv, Overridden, Written, LastLine
  <2>4. Compiled' /\ Resolved'
    BY <2>1 DEF IInv, Compiled, Resolved, Nothing
  <2> QED  BY <2>2, <2>3, <2>4 DEF IInv
<1>3. CASE Rebuild
  <2>1. (lines = <<>> /\ overrides = Nothing /\ defaults = Nothing /\ env = Nothing
          /\ settings = Nothing /\ step = "select")'
    BY <1>3 DEF Rebuild, Nothing
  <2>2. (lines = <<>> /\ overrides = Nothing /\ defaults = Nothing /\ env = Nothing
          /\ settings = Nothing /\ step = "select" => IInv)'
    BY Fresh, PTL
  <2> QED  BY <2>1, <2>2
<1> QED
  BY <1>1, <1>2, <1>3, AssignPreserves, GeneratePreserves, StartPreserves DEF Next

THEOREM Invariance == Spec => []IInv
  BY InitEstablishes, StepPreserves, PTL DEF Spec

-----------------------------------------------------------------------------
(* The values have their types, and what is compiled in passed render().   *)
THEOREM TypeCorrect == Spec => []TypeOK
<1>1. IInv => TypeOK
  BY DEF IInv
<1> QED  BY <1>1, Invariance, PTL

(* The program starts with settings it can work with, whatever profile     *)
(* built and whatever the environment holds: config.rs:261's expect() is   *)
(* never reached with a value that build.rs let through.                   *)
THEOREM AlwaysWorkable == Spec => []StartsWorkable
<1>1. IInv => StartsWorkable
  <2> SUFFICES ASSUME IInv, settings # Nothing, NEW k \in Knob
               PROVE  Workable(k, settings[k])
    BY DEF StartsWorkable
  <2>1. /\ step = "built"
        /\ settings[k] = IF env[k] # Unset /\ Heeded(k, env[k])
                         THEN Taken(k, env[k]) ELSE Default(k, defaults[k])
    BY DEF IInv, Resolved
  <2>2. CASE env[k] # Unset /\ Heeded(k, env[k])
    <3>1. env[k] \in Text
      BY <2>2, KnobAssumption DEF IInv, TypeOK
    <3> QED  BY <2>1, <2>2, <3>1, TakenWorks
  <2>3. CASE ~(env[k] # Unset /\ Heeded(k, env[k]))
    BY <2>1, <2>3, CompiledWorks
  <2> QED  BY <2>2, <2>3
<1> QED  BY <1>1, Invariance, PTL

(* The environment over the profile's last assignment over the built-in.   *)
THEOREM LayersInOrder == Spec => []Layered
<1>1. IInv => Layered
  <2> SUFFICES ASSUME IInv, settings # Nothing, NEW k \in Knob,
                      ~(env[k] # Unset /\ Heeded(k, env[k]))
               PROVE  IF Written(k)
                      THEN \E i \in DOMAIN lines : LastLine(k, i) /\
                             settings[k] = Default(k, StripQuotes(Trim(lines[i].value)))
                      ELSE settings[k] = Default(k, BuiltIn[k])
    BY DEF Layered, Written, IInv, Resolved
  <2>1. settings[k] = Default(k, Raw(k))
    BY CompiledWorks DEF IInv, Resolved
  <2>2. CASE Written(k)
    <3>1. PICK i \in DOMAIN lines :
            LastLine(k, i) /\ overrides[k] = StripQuotes(Trim(lines[i].value))
      BY <2>2 DEF IInv, Overridden
    <3>2. lines[i].value \in Text
      <4> DEFINE Line == [key : Knob, value : Values]
      <4>0. lines \in Seq(Line)
        BY DEF IInv, TypeOK
      <4> HIDE DEF Line
      <4>1. lines[i] \in Line
        BY <4>0
      <4> USE DEF Line
      <4> QED  BY <4>1, KnobAssumption
    <3>3. overrides[k] # Unset
      BY <3>1, <3>2, TextTyped, UnsetAssumption
    <3> QED  BY <2>1, <2>2, <3>1, <3>3 DEF Raw
  <2>3. CASE ~Written(k)
    <3>1. overrides[k] = Unset
      BY <2>3 DEF IInv, Overridden
    <3> QED  BY <2>1, <2>3, <3>1 DEF Raw
  <2> QED  BY <2>2, <2>3
<1> QED  BY <1>1, Invariance, PTL

=============================================================================
