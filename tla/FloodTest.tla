----------------------------- MODULE FloodTest ------------------------------
(***************************************************************************)
(* The test that closes a client for sending too fast: Socket::TestFlood   *)
(* (app/net/hao_socket.cpp:378-398), run for each package a client sends,  *)
(* and the fields of a Connection it counts in, which GetOneToUse sets for *)
(* each client (app/net/hao_socket_conn.cpp:31-52).  A time is what has    *)
(* passed since then, and all from the interval on is the same.            *)
(*                                                                         *)
(* The actions change the fields only; ReceiveFlood says when they happen. *)
(***************************************************************************)
EXTENDS Integers, Sequences

CONSTANTS
  flood_time_interval_,   \* FloodTimeInterval
  flood_kick_count_       \* FloodKickCounter

VARIABLES
  since,                  \* since flood_kick_last_time
  flood_attack_count,
  spans                   \* ghost: the times from each of the client's last
                          \* packages to the last of them

floodVars == <<since, flood_attack_count, spans>>

FloodTypeOK ==
  /\ since \in 0 .. flood_time_interval_
  /\ flood_attack_count \in 0 .. flood_kick_count_
  /\ spans \in Seq(Nat) /\ Len(spans) <= flood_kick_count_ + 1

FloodInit ==
  /\ since = flood_time_interval_
  /\ flood_attack_count = 0
  /\ spans = <<>>

\* GetOneToUse: the time of the last package is set to 1970.
ResetFlood ==
  /\ since' = flood_time_interval_
  /\ flood_attack_count' = 0
  /\ spans' = <<>>

\* Mutant of TooSoon: off by one.
MutTooSoon == since < flood_time_interval_ - 1

TooSoon == since < flood_time_interval_

Recent(s) == IF Len(s) > flood_kick_count_ + 1 THEN Tail(s) ELSE s

\* Mutant of Count: a package in time does not end the run.
MutCount == IF TooSoon THEN flood_attack_count + 1 ELSE flood_attack_count

Count == IF TooSoon THEN flood_attack_count + 1 ELSE 0

\* A package has come; the answer true closes the client.
TestFlood(flood) ==
  /\ flood = (Count >= flood_kick_count_)
  /\ flood_attack_count' = Count
  /\ since' = 0
  /\ spans' = Recent(Append([n \in DOMAIN spans |-> spans[n] + since], 0))

TimePasses ==
  /\ since' = IF TooSoon THEN since + 1 ELSE since
  /\ UNCHANGED <<flood_attack_count, spans>>

\* More than flood_kick_count_ packages within the interval are a flood.
Flood == Len(spans) = flood_kick_count_ + 1 /\ spans[1] < flood_time_interval_

\* Each of the last packages came too soon after the one before.
Run == /\ Len(spans) = flood_kick_count_ + 1
       /\ \A n \in 1 .. flood_kick_count_ : spans[n] - spans[n + 1] < flood_time_interval_

=============================================================================
