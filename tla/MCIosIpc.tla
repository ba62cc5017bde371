------------------------------ MODULE MCIosIpc ------------------------------
(* A small guest for IosIpc: two event hooks and two HCI reads, so that one *)
(* of each can be refused, and one request of every other kind.            *)
EXTENDS IosIpc

CONSTANTS plain, hook1, hook2, release, command, invalid, hci1, hci2, acl1

MCRequest == {plain, hook1, hook2, release, command, invalid, hci1, hci2, acl1}

MCKindOf ==
    [r \in MCRequest |->
        IF r = plain THEN "plain"
        ELSE IF r \in {hook1, hook2} THEN "eventhook"
        ELSE IF r = release THEN "release"
        ELSE IF r = command THEN "bt_command"
        ELSE IF r = invalid THEN "bt_invalid"
        ELSE IF r \in {hci1, hci2} THEN "bt_hci_read"
        ELSE "bt_acl_read"]
=============================================================================
