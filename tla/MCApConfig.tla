---------------------------- MODULE MCApConfig ----------------------------
(***************************************************************************)
(* ApConfig for TLC.  The limits on lengths are small, so that texts on    *)
(* both sides of each are short; one character is two bytes wide and one   *)
(* is a control character.  The numbers have their real limits and widths: *)
(* each is tried at both ends of its range, past them, and where 8 and 16  *)
(* bits would wrap into it.  A file has one value written, or a name and a *)
(* suffix, or all of them.                                                 *)
(***************************************************************************)
EXTENDS ApStatus

CONSTANTS a, b, wide, ctl, g, h

RobotIds == {<<a>>, <<b>>, <<a, b, a, a>>, <<a, b, a, b>>}
Widths   == [c \in {a, b, wide, ctl} |-> IF c = wide THEN 2 ELSE 1]
Setup    == <<b>>

Blank == [ssid |-> Unset, suffix |-> Unset, psk |-> Unset, address |-> Unset,
          cidr |-> Unset, channel |-> Unset]

Names     == {<<a>>, <<a, b, a>>, <<wide, wide>>, <<a, b, a, b>>, <<ctl>>}
Endings  == {<<>>, <<b>>, <<a, b>>, <<wide>>, <<ctl>>}
Passwords == {<<a>>, <<a, b>>, <<wide, a, b>>, <<a, b, a, b>>, <<a, ctl>>}
Numbers(max) == {0, 1, max, max + 1, 255, 257, U16 - 1, U16 + 1, Malformed}

Files ==
  {Blank} \cup
  {[Blank EXCEPT !.ssid = n, !.suffix = s] : n \in Names \cup {Unset}, s \in Endings} \cup
  {[Blank EXCEPT !.psk = p] : p \in Passwords} \cup
  {[Blank EXCEPT !.address = v] : v \in {h, Malformed}} \cup
  {[Blank EXCEPT !.cidr = n] : n \in Numbers(CidrMax)} \cup
  {[Blank EXCEPT !.channel = n] : n \in Numbers(ChannelMax)} \cup
  {[ssid |-> <<a, b>>, suffix |-> <<a>>, psk |-> <<b, b>>, address |-> h,
    cidr |-> 16, channel |-> 11]}
=============================================================================
