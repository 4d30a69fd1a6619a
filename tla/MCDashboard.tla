----------------------------- MODULE MCDashboard -----------------------------
EXTENDS Dashboard

\* A threshold that is shown rounded, and one that is not; zero is refused.
MCFirstRow == [threshold |-> 3, mode |-> "AVERAGE"]
MCTyped == {[field |-> "threshold", value |-> 0], [field |-> "threshold", value |-> 8],
            [field |-> "mode", value |-> "LAST"]}
MCOthers == {[threshold |-> 3, mode |-> "SECOND"]}
=============================================================================
