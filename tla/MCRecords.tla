------------------------------ MODULE MCRecords ------------------------------
(* Records with packets of two protocols, one not known by name,  *)
(* a clock that ticks twice in a millisecond, and two restarts.             *)
EXTENDS Records

MCPackets ==
  {[protocol |-> <<"Mdns">>, len |-> 2, ips |-> {"a", "b"}, vendor_class |-> {"class"}],
   [protocol |-> <<"Other", 255>>, len |-> 1, ips |-> {"c"}, vendor_class |-> {}]}

MCKinds == {<<"Info", "NewDevice">>, <<"Warning", "DeviceOffline">>,
            <<"Critical", "ProtocolChange">>}

MCVendor == {"vendor"}
=============================================================================
