---------------------------- MODULE MCModelStore ----------------------------
EXTENDS ModelStore, TLC

\* Two installs of one name, for different weights.
MCJobOf == "i1" :> [name |-> "x", want |-> "dx"] @@ "i2" :> [name |-> "x", want |-> "dy"]
=============================================================================
