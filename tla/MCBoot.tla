------------------------------- MODULE MCBoot -------------------------------
(* Two keyboards, one with two reports, sticks with two firmwares and one  *)
(* without, and a device that is neither.                                  *)
EXTENDS Boot

Device(is, id, report, version) ==
  [is |-> is, id |-> id, report |-> report, version |-> version]

Versions == {<<0, 0, 0, 1>>, <<0, 0, 0, 2>>, <<>>}

MCReports == {"zero", "keys"}
MCDevices ==
  {Device("none", <<>>, "zero", <<>>), Device("other", <<>>, "zero", <<>>),
   Device("keyboard", <<2>>, "zero", <<>>)}
  \cup {Device("keyboard", <<1>>, r, <<>>) : r \in MCReports}
  \cup {Device("stick", v, "zero", v) : v \in Versions}

=============================================================================
