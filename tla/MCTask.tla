-------------------------------- MODULE MCTask --------------------------------
(* Small instances of Task for TLC. *)
EXTENDS Task

Reading(at, turns, air, height, high) ==
    [at |-> at, turns |-> turns, air |-> air, height |-> height, high |-> high]

\* What fixes say of a task of two turn points whose areas meet.
TwoTurns ==
    LET start == {"near", "start", "departure"}
    IN  {Reading(start,   {}, "free",   "legal",  TRUE),
         Reading(start,   {}, "free",   "above",  TRUE),
         Reading(start,   {}, "ground", "legal",  FALSE),
         Reading({"near"}, {}, "free",  "legal",  TRUE),
         Reading({"near"}, {}, "free",  "margin", TRUE),
         Reading({"near"}, {}, "towed", "legal",  TRUE),
         Reading({},      {},     "free",   "legal", TRUE),
         Reading({},      {1},    "free",   "legal", TRUE),
         Reading({},      {1},    "ground", "legal", FALSE),
         Reading({},      {1, 2}, "free",   "legal", TRUE),
         Reading({},      {2},    "free",   "legal", TRUE),
         Reading({"finish", "before"}, {3}, "free", "legal", TRUE),
         Reading({"finish"}, {},  "free",   "legal", TRUE),
         Reading({"finish"}, {},  "free",   "legal", FALSE)}

Rule(type, start, turn, finish, mode, kind, ga) ==
    [type |-> type, start |-> start, turn |-> turn, finish |-> finish,
     mode |-> mode, gates |-> kind, ga |-> ga]

\* Two units behind UTC, in the Americas: a time converted twice is too early.
West == -2

Competitions ==
    {Rule("default", "line",   "sector", "line",   "arm",      "anytime", FALSE),
     Rule("default", "circle", "sector", "circle", "auto",     "anytime", FALSE),
     Rule("AAT",     "line",   "circle", "circle", "armstart", "pev",     FALSE),
     Rule("GP",      "entry",  "sector", "line",   "armtps",   "fixed",   FALSE),
     Rule("GP",      "circle", "circle", "circle", "auto",     "fixed",   FALSE),
     Rule("default", "circle", "sector", "line",   "manual",   "anytime", FALSE),
     Rule("default", "line",   "sector", "line",   "auto",     "anytime", TRUE)}
==============================================================================
