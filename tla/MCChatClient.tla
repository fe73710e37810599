---------------------------- MODULE MCChatClient ----------------------------
(***************************************************************************)
(* Instances of ChatClient for TLC.                                        *)
(***************************************************************************)
EXTENDS ChatClient

CONSTANTS m1, m2, c1

Only(uses) == [what \in Spent |-> IF what \in uses THEN 1 ELSE 0]

Days == {Only({"expiries", "choices"}), Only({"expiries", "stops"}), Only({"expiries", "loads"}),
         Only({"expiries", "faults"}), Only({"faults", "choices"}), Only({"faults", "stops"}),
         Only({"stops", "choices"}), Only({"commands", "choices"}), Only({"commands", "stops"}),
         [Only({}) EXCEPT !["choices"] = 3]}

=============================================================================
