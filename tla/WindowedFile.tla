---------------------------- MODULE WindowedFile ----------------------------
(***************************************************************************)
(* What a container is promised by io::View: a file of its own, that       *)
(* starts at the window's first byte and has its own position.  The        *)
(* promise has one limit.  All the windows of one file share its cursor,   *)
(* so a window knows its position only until another window is used; then  *)
(* the position is Lost until the window seeks, and what it reads before   *)
(* that can be any bytes.                                                  *)
(*                                                                         *)
(* Bytes are named by their absolute place in the file: an answer says     *)
(* which bytes it holds, never what they are.                              *)
(***************************************************************************)
EXTENDS Integers

CONSTANTS View,    \* the handles
          Number,  \* places, positions and byte counts
          Lost     \* the position of a window that has to seek first

VARIABLES base,    \* base[v]: the absolute place of the first byte of v
          size,    \* size[v]: the number of bytes of v
          cur,     \* cur[v]: the position of v, relative to base[v], or Lost
          answer   \* what the last operation gave its caller

vars == <<base, size, cur, answer>>

AllLost == [v \in View |-> Lost]

(* Only v knows where it is.                                               *)
Alone(v, p) == [AllLost EXCEPT ![v] = p]

Init == /\ base = [v \in View |-> 0]
        /\ size = [v \in View |-> 0]
        /\ cur = AllLost
        /\ answer = [kind |-> "none"]

(* A new window on the bytes from b on, placed on its first byte.          *)
Open(v, b, n) ==
  /\ base' = [base EXCEPT ![v] = b]
  /\ size' = [size EXCEPT ![v] = n]
  /\ cur' = Alone(v, 0)
  /\ answer' = [kind |-> "opened", view |-> v]

(* A second handle on the window of u.  It shares the position of u: the   *)
(* window that is placed is the new one.                                   *)
Duplicate(u, v) ==
  /\ base' = [base EXCEPT ![v] = base[u]]
  /\ size' = [size EXCEPT ![v] = size[u]]
  /\ cur' = IF cur[u] = Lost THEN cur ELSE Alone(v, cur[u])
  /\ answer' = [kind |-> "opened", view |-> v]

(* The position a seek reports is the position the window then has.        *)
Seek(v, p) ==
  /\ p <= size[v]
  /\ cur' = Alone(v, p)
  /\ answer' = [kind |-> "position", view |-> v, at |-> p]
  /\ UNCHANGED <<base, size>>

Advance(v, d) ==
  /\ \/ /\ cur[v] # Lost
        /\ cur' = Alone(v, cur[v] + d)
        /\ answer' = [kind |-> "position", view |-> v, at |-> cur[v] + d]
     \/ /\ cur[v] = Lost
        /\ cur' = AllLost
        /\ \E p \in Number : answer' = [kind |-> "position", view |-> v, at |-> p]
  /\ UNCHANGED <<base, size>>

(* n bytes of the window of v, from its own position on.                   *)
Read(v, n) ==
  /\ \/ /\ cur[v] # Lost
        /\ cur' = Alone(v, cur[v] + n)
        /\ answer' = [kind |-> "bytes", view |-> v,
                      from |-> base[v] + cur[v], n |-> n]
     \/ /\ cur[v] = Lost
        /\ cur' = AllLost
        /\ \E b \in Number : answer' = [kind |-> "bytes", view |-> v,
                                       from |-> b, n |-> n]
  /\ UNCHANGED <<base, size>>

(* An operation may fail; it then moves nothing.                           *)
Fail == /\ answer' = [kind |-> "error"]
        /\ UNCHANGED <<base, size, cur>>

(* A handle goes; if it was the placed one, nobody knows where he is.      *)
Close(v) == /\ cur' = IF cur[v] = Lost THEN cur ELSE AllLost
            /\ UNCHANGED <<base, size, answer>>

Next == \/ \E v \in View, b, n \in Number : Open(v, b, n)
        \/ \E u, v \in View : Duplicate(u, v)
        \/ \E v \in View, p \in Number : Seek(v, p) \/ Advance(v, p) \/ Read(v, p)
        \/ \E v \in View : Close(v)
        \/ Fail

Spec == Init /\ [][Next]_vars
=============================================================================
