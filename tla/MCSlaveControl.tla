--------------------------- MODULE MCSlaveControl ---------------------------
(* The requests of an enumeration, of the HID and the keyboard driver, and *)
(* some that the device does not know.                                     *)
EXTENDS SlaveControl

Std(to, code, what, value, index) ==
  [NoRequest EXCEPT !.type = "standard", !.to = to, !.code = code, !.what = what,
                    !.value = value, !.index = index]
Get(to, what, value, length) ==
  [Std(to, "GET_DESCRIPTOR", what, value, 0) EXCEPT !.length = length]
Hid(code, what, value, length, data) ==
  [NoRequest EXCEPT !.type = "class", !.to = "interface", !.code = code, !.what = what,
                    !.value = value, !.length = length, !.data = data]

MCRequests ==
  {Std("device", "SET_CONFIGURATION", "none", v, 0) : v \in {0, 1}}
  \cup {Std("endpoint", c, "none", 0, 129) : c \in {"GET_STATUS", "SET_FEATURE", "CLEAR_FEATURE"}}
  \cup {Std("device", c, "none", 0, 0) : c \in {"GET_CONFIGURATION", "SET_ADDRESS", "GET_STATUS"}}
  \cup {Std("interface", c, "none", 0, 0) : c \in {"GET_STATUS", "GET_INTERFACE", "SET_INTERFACE"}}
  \cup {Get("device", "CONFIGURATION", 0, n) : n \in {9, 34}}
  \cup {Get("device", "STRING", 3, 255), Get("device", "STRING", 4, 255),
        Get("interface", "REPORT", 0, 89)}
  \cup {Hid("SET_REPORT", "OUTPUT", 1, n, 1) : n \in {1, 2}}
  \cup {Hid("SET_REPORT", "OUTPUT", 1, 2, 0),
        Hid("SET_REPORT", "FEATURE", 2, 65, 1), Hid("SET_REPORT", "FEATURE", 1, 65, 1),
        Hid("SET_REPORT", "FEATURE", 2, 129, 1),
        Hid("SET_IDLE", "none", 0, 0, 4), Hid("GET_IDLE", "none", 0, 1, 0),
        Hid("SET_PROTOCOL", "none", 1, 0, 0), Hid("GET_PROTOCOL", "none", 0, 1, 0),
        Hid("GET_REPORT", "INPUT", 1, 9, 0), Hid("GET_REPORT", "OUTPUT", 1, 2, 0),
        Hid("GET_REPORT", "FEATURE", 2, 65, 0)}

=============================================================================
