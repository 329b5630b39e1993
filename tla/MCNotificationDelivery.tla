----------------------- MODULE MCNotificationDelivery -----------------------
(***************************************************************************)
(* Small instances of NotificationDelivery: a default list of an           *)
(* unregistered and a registered channel, and payloads without a mask and  *)
(* with one of a channel that shows and one that drops.                    *)
(***************************************************************************)
EXTENDS NotificationDelivery

Payload(override, names) ==
    [priority |-> None, priority_override |-> override, channels |-> names]

MCDefaults == <<"pager", "os_native">>

MixedPayloads == {Payload(None, <<>>), Payload("urgent", <<"os_native", "telegram">>)}
=============================================================================
