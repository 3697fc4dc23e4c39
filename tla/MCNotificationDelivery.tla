------------------------ MODULE MCNotificationDelivery ------------------------
(* NotificationDelivery with workers and administrators that are alike. *)
EXTENDS NotificationDelivery, TLC

MCSymmetry == Permutations(Worker) \cup Permutations(Admin)
=============================================================================
