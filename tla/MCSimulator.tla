---------------------------- MODULE MCSimulator ----------------------------
(* The prototype in sessions that play with one or two accounts each. *)
EXTENDS Simulator

Session(accounts, scenarios, deposits, applications) ==
    [accounts |-> accounts, scenarios |-> scenarios,
     deposits |-> deposits, applications |-> applications]

\* Pak Deni through illness and silence, and after his loan; Pak X through
\* default; a registration beside Pak Budi; Bu Fatimah between the groups; Bu
\* Sri paying; Bu Aminah saving and borrowing.
OneByOne ==
    {Session({"m2"}, {"uzur", "no_news"}, 0, 0), Session({"m2"}, {"no_news"}, 0, 1),
     Session({"m3"}, {"mangkir"}, 0, 1),
     Session({"m6", "m8"}, {"kyc"}, 1, 0), Session({"m6", "m8"}, {}, 0, 1),
     Session({"m7"}, {"grup_baru", "undangan"}, 1, 1),
     Session({"m1"}, {"positif"}, 1, 0), Session({"m5"}, {}, 1, 1)}
============================================================================
