------------------------------ MODULE MCEquityCall ------------------------------
(* Two Python threads over one range: one may be anywhere in a call while the    *)
(* other fails, writes weights or runs a call of its own.                        *)
EXTENDS EquityCall
=============================================================================
