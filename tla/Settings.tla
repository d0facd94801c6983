------------------------------ MODULE Settings ------------------------------
(***************************************************************************)
(* Where a setting comes from: build.rs compiles a profile over the        *)
(* built-in values, and every start of the program lays its environment    *)
(* over what was compiled.  The two read and validate by themselves.       *)
(*                                                                         *)
(* A text is what is told apart of it: whether there is white space around *)
(* it, whether quotes enclose it, white space inside the quotes, the kinds *)
(* of its characters, and the number it is if it consists of digits.       *)
(***************************************************************************)
EXTENDS Naturals, Sequences

CONSTANTS
  Knob,     \* the settings
  Kind,     \* Kind[k]: how config.rs reads k
  BuiltIn,  \* Knob::value
  Values,   \* texts that are written in a profile or the environment
  Environments, \* what the program may be started with
  Names,    \* texts that a profile is selected with
  Unset,    \* an environment variable that is not there
  NaN,      \* the number of a text that is none
  Panic,    \* an expect() that fails
  IdMax,    \* the longest robot ID
  U32,      \* how many values a u32 has
  MaxLines  \* bound: the assignments in a profile

Kinds == {"path", "string", "optional", "id", "domain", "u32", "positive"}
Class == {"lower", "upper", "digit", "hyphen", "slash", "dot", "other"}
Text  == [out : BOOLEAN, quoted : BOOLEAN, in : BOOLEAN,
          word : Seq(Class), num : Nat \cup {NaN}]

DomainMax == 232
U8        == 256
U16       == 65536

ASSUME KnobAssumption ==
  /\ Kind \in [Knob -> Kinds] /\ BuiltIn \in [Knob -> Text]
  /\ Values \cup Names \subseteq Text
  /\ Environments \subseteq [Knob -> Values \cup {Unset}]
ASSUME LimitAssumption == {IdMax, U32, MaxLines} \subseteq Nat /\ U16 < U32
ASSUME UnsetAssumption == Unset \notin Text /\ Panic \notin Text /\ NaN \notin Nat

VARIABLES
  step,      \* of the build: "select", "read", "built" or "failed"
  lines,     \* the assignments read from the profile
  overrides, \* read_profile()'s map: Unset where there is no entry
  defaults,  \* the constants of defaults.rs
  env,       \* the environment of the last start
  settings   \* what that start resolved: Paths and SuperviseTuning

vars == <<step, lines, overrides, defaults, env, settings>>

Nothing == [k \in Knob |-> Unset]

Init ==
  /\ step = "select" /\ lines = <<>>
  /\ overrides = Nothing /\ defaults = Nothing /\ env = Nothing
  /\ settings = Nothing

-----------------------------------------------------------------------------
(* Texts. *)

Number(n) == [out |-> FALSE, quoted |-> FALSE, in |-> FALSE,
              word |-> <<"digit">>, num |-> n]

Trim(t) == [t EXCEPT !.out = FALSE]

StripQuotes(t) ==
  IF t.quoted /\ ~t.out THEN [t EXCEPT !.out = t.in, !.quoted = FALSE, !.in = FALSE]
                        ELSE t

Bare(t)    == ~t.out /\ ~t.quoted
IsEmpty(t) == Bare(t) /\ t.word = <<>>
Blank(t)   == IsEmpty(Trim(t))

Parses(t, size) == Bare(t) /\ t.num # NaN /\ t.num < size

NumberKinds == {"domain", "u32", "positive"}

-----------------------------------------------------------------------------
(* build.rs. *)

PathLike(t) ==
  \/ \E i \in DOMAIN t.word : t.word[i] = "slash"
  \/ t.word # <<>> /\ t.word[1] = "dot"

(* select_profile(): which of the two variables is set, and whether there  *)
(* is such a file.                                                         *)
Select ==
  /\ step = "select"
  /\ \E name, file \in Names \cup {Unset}, found \in BOOLEAN :
       LET named == name # Unset /\ ~Blank(name)
           filed == file # Unset /\ ~Blank(file)
       IN  step' = IF (named /\ filed) \/ (named /\ PathLike(name))
                      \/ ((named \/ filed) /\ ~found)
                   THEN "failed"
                   ELSE IF named \/ filed THEN "read" ELSE "generate"
  /\ UNCHANGED <<lines, overrides, defaults, env, settings>>

Accept(k, v) ==
  /\ lines' = Append(lines, [key |-> k, value |-> v])
  /\ UNCHANGED <<step, defaults, env, settings>>

\* Bug: the first assignment wins.
Assign_FirstWins ==
  /\ step = "read" /\ Len(lines) < MaxLines
  /\ \E k \in Knob, v \in Values :
       /\ Accept(k, v)
       /\ overrides' = IF overrides[k] # Unset THEN overrides
                       ELSE [overrides EXCEPT ![k] = StripQuotes(Trim(v))]

(* A line of read_profile(); comments and blank lines do nothing. *)
Assign ==
  /\ step = "read" /\ Len(lines) < MaxLines
  /\ \E k \in Knob, v \in Values :
       /\ Accept(k, v)
       /\ overrides' = [overrides EXCEPT ![k] = StripQuotes(Trim(v))]

(* A line that is no assignment, or one of a key that nothing reads; or    *)
(* the file cannot be read.                                                *)
Refuse ==
  /\ step = "read" /\ step' = "failed"
  /\ UNCHANGED <<lines, overrides, defaults, env, settings>>

EndOfProfile ==
  /\ step = "read" /\ step' = "generate"
  /\ UNCHANGED <<lines, overrides, defaults, env, settings>>

\* Bug: only the first character is looked at for a hyphen.
BuildId_OneEnd(t) ==
  /\ Bare(t) /\ Len(t.word) \in 1..IdMax
  /\ \A i \in DOMAIN t.word : t.word[i] \in {"lower", "digit", "hyphen"}
  /\ t.word[1] # "hyphen"

(* The rule for robot IDs as build.rs restates it. *)
BuildId(t) ==
  /\ Bare(t) /\ Len(t.word) \in 1..IdMax
  /\ \A i \in DOMAIN t.word : t.word[i] \in {"lower", "digit", "hyphen"}
  /\ t.word[1] # "hyphen" /\ t.word[Len(t.word)] # "hyphen"

\* Bug: a number is only looked at for its range.
Renders_Unparsed(k, t) ==
  /\ Kind[k] \in {"path", "string"} => ~IsEmpty(t)
  /\ Kind[k] = "id" => BuildId(t)
  /\ Kind[k] = "domain" => t.num = NaN \/ t.num <= DomainMax
  /\ Kind[k] \in {"u32", "positive"} => t.num = NaN \/ t.num < U32

(* render(): what is not rejected, and the literal it becomes. *)
Renders(k, t) ==
  /\ Kind[k] \in {"path", "string"} => ~IsEmpty(t)
  /\ Kind[k] = "id" => BuildId(t)
  /\ Kind[k] = "domain" => Parses(t, U16) /\ t.num <= DomainMax
  /\ Kind[k] \in {"u32", "positive"} => Parses(t, U32)

Literal(k, t) == IF Kind[k] \in NumberKinds THEN Number(t.num) ELSE t

Raw(k) == IF overrides[k] # Unset THEN overrides[k] ELSE BuiltIn[k]

(* generate(). *)
Generate ==
  /\ step = "generate"
  /\ \/ /\ \A k \in Knob : Renders(k, Raw(k))
        /\ defaults' = [k \in Knob |-> Literal(k, Raw(k))] /\ step' = "built"
     \/ /\ \E k \in Knob : ~Renders(k, Raw(k))
        /\ step' = "failed" /\ UNCHANGED defaults
  /\ UNCHANGED <<lines, overrides, env, settings>>

(* The next build starts from nothing. *)
Rebuild ==
  /\ step \in {"built", "failed"}
  /\ step' = "select" /\ lines' = <<>>
  /\ overrides' = Nothing /\ defaults' = Nothing /\ env' = Nothing
  /\ settings' = Nothing

-----------------------------------------------------------------------------
(* config.rs. *)

(* RobotId::new() and RosDomainId::new(). *)
RobotId(t) ==
  /\ Bare(t) /\ t.word # <<>> /\ Len(t.word) <= IdMax
  /\ \A i \in DOMAIN t.word : t.word[i] \in {"lower", "digit", "hyphen"}
  /\ t.word[1] # "hyphen" /\ t.word[Len(t.word)] # "hyphen"

RosDomainId(n) == n <= DomainMax

(* What of the environment is heeded, what it is taken for, and what a     *)
(* compiled-in value is taken for.                                         *)
Heeded(k, t) ==
  /\ Kind[k] \in {"path", "string"} => ~Blank(t)
  /\ Kind[k] = "id" => RobotId(t)
  /\ Kind[k] = "domain" => Parses(Trim(t), U8) /\ RosDomainId(t.num)
  /\ Kind[k] \in {"u32", "positive"} => Parses(Trim(t), U32)

AtLeastOne(k, n) == IF Kind[k] = "positive" /\ n = 0 THEN 1 ELSE n

Taken(k, t) ==
  IF Kind[k] \in NumberKinds THEN Number(AtLeastOne(k, t.num))
  ELSE IF Kind[k] \in {"string", "optional"} THEN Trim(t) ELSE t

Default(k, t) ==
  IF (Kind[k] = "id" /\ ~RobotId(t)) \/ (Kind[k] = "domain" /\ ~RosDomainId(t.num))
  THEN Panic
  ELSE IF Kind[k] \in NumberKinds THEN Number(AtLeastOne(k, t.num))
  ELSE IF Kind[k] = "optional" THEN Trim(t) ELSE t

(* Paths::from_env() and SuperviseTuning::from_env(). *)
Start ==
  /\ step = "built"
  /\ env' \in Environments
  /\ settings' = [k \in Knob |-> IF env'[k] # Unset /\ Heeded(k, env'[k])
                                 THEN Taken(k, env'[k]) ELSE Default(k, defaults[k])]
  /\ UNCHANGED <<step, lines, overrides, defaults>>

Next ==
  \/ Select \/ Assign \/ Refuse \/ EndOfProfile \/ Generate \/ Rebuild \/ Start

Spec == Init /\ [][Next]_vars

-----------------------------------------------------------------------------
(* What is compiled in has passed render(): a number is one, and in range. *)
TypeOK ==
  /\ step \in {"select", "read", "generate", "built", "failed"}
  /\ lines \in Seq([key : Knob, value : Values])
  /\ overrides \in [Knob -> Text \cup {Unset}]
  /\ env \in [Knob -> Values \cup {Unset}]
  /\ settings \in [Knob -> Text \cup {Unset, Panic}]
  /\ IF step = "built"
     THEN /\ defaults \in [Knob -> Text]
          /\ \A k \in Knob : Kind[k] \in NumberKinds => defaults[k].num \in 0..U32
     ELSE defaults = Nothing

(* Whatever profile builds and whatever the environment holds, the program *)
(* starts, with an identity that id.rs accepts and with no zero among the  *)
(* tuning that the supervisor counts and waits with (WifiSupervisor takes  *)
(* that for granted): build.rs restates the rules that config.rs expects.  *)
Workable(k, t) ==
  /\ t # Panic
  /\ Kind[k] = "id" => RobotId(t)
  /\ Kind[k] = "domain" => t.num \in 0..DomainMax
  /\ Kind[k] = "positive" => t.num \in Nat \ {0}

StartsWorkable == settings # Nothing => \A k \in Knob : Workable(k, settings[k])

(* The environment, if it can be used, over the last assignment in the     *)
(* profile, over the built-in value.                                       *)
LastLine(k, i) == lines[i].key = k /\ \A j \in DOMAIN lines : j > i => lines[j].key # k

Layered ==
  settings # Nothing => \A k \in Knob :
    IF env[k] # Unset /\ Heeded(k, env[k])
    THEN settings[k] = Taken(k, env[k])
    ELSE IF \E i \in DOMAIN lines : lines[i].key = k
    THEN \E i \in DOMAIN lines :
           LastLine(k, i) /\ settings[k] = Default(k, StripQuotes(Trim(lines[i].value)))
    ELSE settings[k] = Default(k, BuiltIn[k])

=============================================================================
