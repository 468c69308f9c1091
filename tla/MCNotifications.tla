--------------------------- MODULE MCNotifications ---------------------------
(* Notifications on small instances.                                       *)
EXTENDS Notifications

CONSTANTS n1, email, sms, inApp

OneNotification  == {n1}
ThreeChannels    == {email, sms, inApp}
EmailOnly        == {email}

(* LOW has one attempt, NORMAL two.                                        *)
LowAndNormal     == {1, 2}
=============================================================================
