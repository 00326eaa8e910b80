----------------------------- MODULE MCMcpServer -----------------------------
(* Arguments with the device key in any spelling, in both orders, or missing. *)
EXTENDS McpServer

CONSTANTS k1, k2, NotString

MCArguments ==
    {<<>>,
     <<Entry("device_key", k1)>>,
     <<Entry("device_key", NotString)>>,
     <<Entry("Device_Key", k2)>>,
     <<Entry("Device_Key", k2), Entry("device_key", k1)>>,
     <<Entry("device_key", k1), Entry("Device_Key", k2)>>}

=============================================================================
