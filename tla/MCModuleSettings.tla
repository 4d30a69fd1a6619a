-------------------------- MODULE MCModuleSettings --------------------------
(***************************************************************************)
(* Thresholds in units of a hundredth of what the database keeps, so that  *)
(* rounding shows.  The defaults for a module differ as those in the code  *)
(* do, and come in the same order.                                         *)
(***************************************************************************)
EXTENDS ModuleSettings

PriceModule == [threshold |-> 4000, ratio |-> 2000, mode |-> "AVERAGE", status |-> "active"]

MCWorkerDefault == [m \in ModuleIds |->
    IF m = "funding-spread" THEN [PriceModule EXCEPT !.threshold = 500] ELSE PriceModule]
MCApiDefault == [m \in ModuleIds |->
    [PriceModule EXCEPT !.threshold = CASE m = "funding-spread" -> 100
                                        [] m = "dex-futures-spread" -> 2000
                                        [] OTHER -> 1000]]
MCInsertDefault == PriceModule
MCSeed == [m \in ModuleIds |->
    IF m = "funding-spread" THEN [PriceModule EXCEPT !.threshold = 1000] ELSE PriceModule]

Ask(m, sets) == [module |-> m, sets |-> sets]

\* Two fields of one module, set and set back, another module, and a ratio that is
\* rounded to one, for a module that is synced before these.
MCRequests ==
    {Ask("futures-futures-spread", [threshold |-> 1234]),
     Ask("futures-futures-spread", [status |-> "paused"]),
     Ask("futures-futures-spread", [status |-> "active", ratio |-> 3004]),
     Ask("funding-spread", [threshold |-> 700, mode |-> "FIRST"]),
     Ask("dex-futures-spread", [ratio |-> 1004])}

\* A module is paused and resumed.
MCPauses == {Ask("funding-spread", [status |-> "paused"]),
             Ask("funding-spread", [status |-> "active"])}
=============================================================================
