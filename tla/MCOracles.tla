----------------------------- MODULE MCOracles -----------------------------
(* The two ways to the metric of a past moment: the closes of candles, and   *)
(* the rounds of a feed on the chain.  They share nothing, and in one        *)
(* behaviour one of them is asked.  For candles, there are three calls for   *)
(* one or two, among candles up to two minutes away; a search is made once.  *)
EXTENDS OracleResolver, TLC

CONSTANTS c1, c2, c3, v1, v2
CONSTANTS Latest, MaxStamp, Targets, Beat, Spare, Turns, MaxFailures, NoRound

VARIABLES asked, stamps, target, at, lo, hi, turn, best, failed

searchVars == <<stamps, target, at, lo, hi, turn, best, failed>>
Search == INSTANCE RoundSearch

ASSUME OraclesAssumption == Search!SearchAssumption

NearestRound == Search!NearestRound

OraclesInit ==
  \/ /\ asked = "candles" /\ Init
     /\ Search!Init
     /\ \A r \in Search!Rounds : stamps[r] = MaxStamp
     /\ target = MaxStamp
  \/ /\ asked = "rounds" /\ Search!Init
     /\ Init
     /\ truth = [m \in Candles |-> v1]
     /\ \A c \in Calls, at0 \in Ends : key[c] <= KeyOf(at0)

OraclesNext ==
  /\ \/ asked = "candles" /\ Next /\ UNCHANGED searchVars
     \/ asked = "rounds" /\ Search!Next /\ UNCHANGED vars
  /\ UNCHANGED asked

OraclesSpec == OraclesInit /\ [][OraclesNext]_<<vars, searchVars, asked>>

MCSymmetry == Permutations(Calls) \cup Permutations(Closes)
=============================================================================
