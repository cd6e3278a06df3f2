----------------------------- MODULE Memcached -----------------------------
(* What a memcached server does with a command for one key. *)
CONSTANT Absent

Error == [type |-> "Error", data |-> Absent]
Plain(type) == [type |-> type, data |-> Absent]

(* When the key has the value s. *)
StoreAfter(command, s) ==
    CASE command.name = "set" -> command.value
      [] command.name = "add" -> IF s = Absent THEN command.value ELSE s
      [] command.name = "delete" -> Absent
      [] OTHER -> s

ReplyTo(command, s) ==
    CASE command.name = "set" -> Plain("Stored")
      [] command.name = "add" -> Plain(IF s = Absent THEN "Stored" ELSE "NotStored")
      [] command.name = "delete" -> Plain(IF s = Absent THEN "NotFound" ELSE "Deleted")
      [] OTHER -> IF s = Absent THEN Plain("NotFound") ELSE [type |-> "Found", data |-> s]
=============================================================================
