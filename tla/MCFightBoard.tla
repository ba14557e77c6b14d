---------------------------- MODULE MCFightBoard ----------------------------
(* An instance of FightBoard small enough for TLC: a fight of a province, a  *)
(* fight of one of its cities that feeds it, and a café's fight whose rule   *)
(* the program cannot build.  At the start the first is posted and has an    *)
(* entrant.                                                                  *)
EXTENDS FightBoard

MCFights == 1..3
MCPosting ==
  <<[from |-> "provinceD", area |-> "P", nextNum |-> 1, parent |-> 0,
     singleFail |-> TRUE, paused |-> FALSE, apply |-> 0, start |-> 1, stop |-> 1],
    [from |-> "cityD", area |-> "C", nextNum |-> 0, parent |-> 1,
     singleFail |-> TRUE, paused |-> FALSE, apply |-> 1, start |-> 2, stop |-> 2],
    [from |-> "coffeenet", area |-> "K", nextNum |-> 0, parent |-> 1,
     singleFail |-> FALSE, paused |-> FALSE, apply |-> 0, start |-> 1, stop |-> 1]>>
MCCafes == {[id |-> "K", city |-> "C", province |-> "P"],
            [id |-> "L", city |-> "D", province |-> "P"]}

FirstPosted ==
  posted = {1} /\ statusRow[1] \in {"apply", "fight"} /\ entrantRows = {<<1, 1>>}

MCInit == Init /\ FirstPosted

MCSpec == MCInit /\ [][Next]_vars /\ Fairness
=============================================================================
