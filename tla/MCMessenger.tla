---------------------------- MODULE MCMessenger ----------------------------
(* The pipe of the package manager: liotapkg.sh writes a line without a    *)
(* newline.                                                                *)
EXTENDS Messenger

ListScript == {[cmd |-> "list", nl |-> FALSE]}
=============================================================================
