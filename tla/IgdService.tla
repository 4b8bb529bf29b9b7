----------------------------- MODULE IgdService -----------------------------
(***************************************************************************)
(* The service descriptions of the internet gateway device, as the         *)
(* functions gen_igd1_service_*_xml() of ezcd/src/pop/                     *)
(* pop_etc_ezcfg_upnpd_igd1.c print them: for every action the state       *)
(* variables its arguments are related to, those that go in before those   *)
(* that come out, and the table of the state variables.  Types, ranges and *)
(* default values of the variables are left out.                           *)
(***************************************************************************)
EXTENDS Naturals, Sequences, TLC

InOut(ins, outs) == [in |-> ins, out |-> outs]
In(ins)     == InOut(ins, <<>>)
Out(outs)   == InOut(<<>>, outs)
NoArguments == InOut(<<>>, <<>>)

(* The two lists of a description.                                         *)
Service(actions, table) == [actions |-> actions, table |-> table]

-----------------------------------------------------------------------------
(* gen_igd1_service_Layer3Forwarding1_xml()                                *)
L3F_actions ==
  "SetDefaultConnectionService" :> In(<<"DefaultConnectionService">>)
  @@ "GetDefaultConnectionService" :> Out(<<"DefaultConnectionService">>)
L3F_stateTable ==
  {"DefaultConnectionService"}
gen_igd1_service_Layer3Forwarding1_xml == Service(
  L3F_actions,
  L3F_stateTable)

-----------------------------------------------------------------------------
(* gen_igd1_service_WANCommonInterfaceConfig1_xml()                        *)
WCIC_actions1 ==
  "SetEnabledForInternet" :> In(<<"EnabledForInternet">>)
  @@ "GetEnabledForInternet" :> Out(<<"EnabledForInternet">>)
  @@ "GetCommonLinkProperties" :> Out(
      <<"WANAccessType", "Layer1UpstreamMaxBitRate",
        "Layer1DownstreamMaxBitRate", "PhysicalLinkStatus">>)
WCIC_actions2 ==
  "GetWANAccessProvider" :> Out(<<"WANAccessProvider">>)
  @@ "GetMaximumActiveConnections" :> Out(<<"MaximumActiveConnections">>)
  @@ "GetTotalBytesSent" :> Out(<<"TotalBytesSent">>)
  @@ "GetTotalBytesReceived" :> Out(<<"TotalBytesReceived">>)
WCIC_actions3 ==
  "GetTotalPacketsSent" :> Out(<<"TotalPacketsSent">>)
  @@ "GetTotalPacketsReceived" :> Out(<<"TotalPacketsReceived">>)
  @@ "GetActiveConnection" :> Out(
      <<"NumberOfActiveConnections", "ActiveConnectionDeviceContainer",
        "ActiveConnectionServiceID">>)
WCIC_stateTable1 ==
  {"WANAccessType", "Layer1UpstreamMaxBitRate",
   "Layer1DownstreamMaxBitRate", "PhysicalLinkStatus", "WANAccessProvider",
   "MaximumActiveConnections", "NumberOfActiveConnections",
   "ActiveConnectionDeviceContainer"}
WCIC_stateTable2 ==
  {"ActiveConnectionServiceID", "TotalBytesSent",
   "TotalBytesReceived", "TotalPacketsSent", "TotalPacketsReceived",
   "EnabledForInternet"}
gen_igd1_service_WANCommonInterfaceConfig1_xml == Service(
  WCIC_actions1 @@ WCIC_actions2
    @@ WCIC_actions3,
  WCIC_stateTable1 \union WCIC_stateTable2)

-----------------------------------------------------------------------------
(* gen_igd1_service_WANEthernetLinkConfig1_xml()                           *)
WELC_actions ==
  "GetEthernetLinkStatus" :> Out(<<"EthernetLinkStatus">>)
WELC_stateTable ==
  {"EthernetLinkStatus"}
gen_igd1_service_WANEthernetLinkConfig1_xml == Service(
  WELC_actions,
  WELC_stateTable)

-----------------------------------------------------------------------------
(* gen_igd1_service_WANPPPConnection1_xml()                                *)
WPC_actions1 ==
  "SetConnectionType" :> In(<<"ConnectionType">>)
  @@ "GetConnectionTypeInfo" :> Out(
      <<"ConnectionType", "PossibleConnectionTypes">>)
  @@ "ConfigureConnection" :> In(<<"UserName", "Password">>)
  @@ "RequestConnection" :> NoArguments
WPC_actions2 ==
  "RequestTermination" :> NoArguments
  @@ "ForceTermination" :> NoArguments
  @@ "SetAutoDisconnectTime" :> In(<<"AutoDisconnectTime">>)
  @@ "SetIdleDisconnectTime" :> In(<<"IdleDisconnectTime">>)
  @@ "SetWarnDisconnectDelay" :> In(<<"WarnDisconnectDelay">>)
WPC_actions3 ==
  "GetStatusInfo" :> Out(
      <<"ConnectionStatus", "LastConnectionError", "Uptime">>)
  @@ "GetLinkLayerMaxBitRates" :> Out(
      <<"UpstreamMaxBitRate", "DownstreamMaxBitRate">>)
  @@ "GetPPPEncryptionProtocol" :> Out(<<"PPPEncryptionProtocol">>)
WPC_actions4 ==
  "GetPPPCompressionProtocol" :> Out(<<"PPPCompressionProtocol">>)
  @@ "GetPPPAuthenticationProtocol" :> Out(<<"PPPAuthenticationProtocol">>)
  @@ "GetUserName" :> Out(<<"UserName">>)
  @@ "GetPassword" :> Out(<<"Password">>)
WPC_actions5 ==
  "GetAutoDisconnectTime" :> Out(<<"AutoDisconnectTime">>)
  @@ "GetIdleDisconnectTime" :> Out(<<"IdleDisconnectTime">>)
  @@ "GetWarnDisconnectDelay" :> Out(<<"WarnDisconnectDelay">>)
  @@ "GetNATRSIPStatus" :> Out(<<"RSIPAvailable", "NATEnabled">>)
WPC_actions6 ==
  "GetGenericPortMappingEntry" :> InOut(
      <<"PortMappingNumberOfEntries">>,
      <<"RemoteHost", "ExternalPort", "PortMappingProtocol", "InternalPort",
        "InternalClient", "PortMappingEnabled", "PortMappingDescription",
        "PortMappingLeaseDuration">>)
WPC_actions7 ==
  "GetSpecificPortMappingEntry" :> InOut(
      <<"RemoteHost", "ExternalPort", "PortMappingProtocol">>,
      <<"InternalPort", "InternalClient", "PortMappingEnabled",
        "PortMappingDescription", "PortMappingLeaseDuration">>)
WPC_actions8 ==
  "AddPortMapping" :> In(
      <<"RemoteHost", "ExternalPort", "PortMappingProtocol", "InternalPort",
        "InternalClient", "PortMappingEnabled", "PortMappingDescription",
        "PortMappingLeaseDuration">>)
WPC_actions9 ==
  "DeletePortMapping" :> In(
      <<"RemoteHost", "ExternalPort", "PortMappingProtocol">>)
  @@ "GetExternalIPAddress" :> Out(<<"ExternalIPAddress">>)
WPC_stateTable1 ==
  {"ConnectionType", "PossibleConnectionTypes",
   "ConnectionStatus", "Uptime", "UpstreamMaxBitRate", "DownstreamMaxBitRate",
   "LastConnectionError"}
WPC_stateTable2 ==
  {"AutoDisconnectTime", "IdleDisconnectTime",
   "WarnDisconnectDelay", "RSIPAvailable", "NATEnabled", "UserName",
   "Password", "PPPEncryptionProtocol", "PPPCompressionProtocol",
   "PPPAuthenticationProtocol", "ExternalIPAddress"}
WPC_stateTable3 ==
  {"PortMappingNumberOfEntries", "PortMappingEnabled",
   "PortMappingLeaseDuration", "RemoteHost", "ExternalPort", "InternalPort",
   "PortMappingProtocol", "InternalClient", "PortMappingDescription"}
gen_igd1_service_WANPPPConnection1_xml == Service(
  WPC_actions1 @@ WPC_actions2
    @@ WPC_actions3 @@ WPC_actions4
    @@ WPC_actions5 @@ WPC_actions6
    @@ WPC_actions7 @@ WPC_actions8
    @@ WPC_actions9,
  WPC_stateTable1 \union WPC_stateTable2
    \union WPC_stateTable3)

-----------------------------------------------------------------------------
(* gen_igd1_service_WANIPConnection1_xml()                                 *)
WIC_actions1 ==
  "SetConnectionType" :> In(<<"ConnectionType">>)
  @@ "GetConnectionTypeInfo" :> Out(
      <<"ConnectionType", "PossibleConnectionTypes">>)
  @@ "RequestConnection" :> NoArguments
  @@ "RequestTermination" :> NoArguments
  @@ "ForceTermination" :> NoArguments
WIC_actions2 ==
  "SetAutoDisconnectTime" :> In(<<"AutoDisconnectTime">>)
  @@ "SetIdleDisconnectTime" :> In(<<"IdleDisconnectTime">>)
  @@ "SetWarnDisconnectDelay" :> In(<<"WarnDisconnectDelay">>)
WIC_actions3 ==
  "GetStatusInfo" :> Out(
      <<"ConnectionStatus", "LastConnectionError", "Uptime">>)
  @@ "GetAutoDisconnectTime" :> Out(<<"AutoDisconnectTime">>)
  @@ "GetIdleDisconnectTime" :> Out(<<"IdleDisconnectTime">>)
WIC_actions4 ==
  "GetWarnDisconnectDelay" :> Out(<<"WarnDisconnectDelay">>)
  @@ "GetNATRSIPStatus" :> Out(<<"RSIPAvailable", "NATEnabled">>)
WIC_actions5 ==
  "GetGenericPortMappingEntry" :> InOut(
      <<"PortMappingNumberOfEntries">>,
      <<"RemoteHost", "ExternalPort", "PortMappingProtocol", "InternalPort",
        "InternalClient", "PortMappingEnabled", "PortMappingDescription",
        "PortMappingLeaseDuration">>)
WIC_actions6 ==
  "GetSpecificPortMappingEntry" :> InOut(
      <<"RemoteHost", "ExternalPort", "PortMappingProtocol">>,
      <<"InternalPort", "InternalClient", "PortMappingEnabled",
        "PortMappingDescription", "PortMappingLeaseDuration">>)
WIC_actions7 ==
  "AddPortMapping" :> In(
      <<"RemoteHost", "ExternalPort", "PortMappingProtocol", "InternalPort",
        "InternalClient", "PortMappingEnabled", "PortMappingDescription",
        "PortMappingLeaseDuration">>)
WIC_actions8 ==
  "DeletePortMapping" :> In(
      <<"RemoteHost", "ExternalPort", "PortMappingProtocol">>)
  @@ "GetExternalIPAddress" :> Out(<<"ExternalIPAddress">>)
WIC_stateTable1 ==
  {"ConnectionType", "PossibleConnectionTypes",
   "ConnectionStatus", "Uptime", "LastConnectionError", "AutoDisconnectTime",
   "IdleDisconnectTime", "WarnDisconnectDelay"}
WIC_stateTable2 ==
  {"RSIPAvailable", "NATEnabled", "ExternalIPAddress",
   "PortMappingNumberOfEntries", "PortMappingEnabled",
   "PortMappingLeaseDuration", "RemoteHost", "ExternalPort", "InternalPort",
   "PortMappingProtocol"}
WIC_stateTable3 ==
  {"InternalClient", "PortMappingDescription"}
gen_igd1_service_WANIPConnection1_xml == Service(
  WIC_actions1 @@ WIC_actions2
    @@ WIC_actions3 @@ WIC_actions4
    @@ WIC_actions5 @@ WIC_actions6
    @@ WIC_actions7 @@ WIC_actions8,
  WIC_stateTable1 \union WIC_stateTable2
    \union WIC_stateTable3)

-----------------------------------------------------------------------------
(* gen_igd1_service_LANHostConfigManagement1_xml()                         *)
LHCM_actions1 ==
  "SetDHCPServerConfigurable" :> In(<<"DHCPServerConfigurable">>)
  @@ "GetDHCPServerConfigurable" :> Out(<<"DHCPServerConfigurable">>)
  @@ "SetDHCPRelay" :> In(<<"DHCPRelay">>)
  @@ "GetDHCPRelay" :> Out(<<"DHCPRelay">>)
LHCM_actions2 ==
  "SetSubnetMask" :> In(<<"SubnetMask">>)
  @@ "GetSubnetMask" :> Out(<<"SubnetMask">>)
  @@ "SetIPRouter" :> In(<<"IPRouters">>)
  @@ "DeleteIPRouter" :> In(<<"IPRouters">>)
LHCM_actions3 ==
  "GetIPRoutersList" :> Out(<<"IPRouters">>)
  @@ "SetDomainName" :> In(<<"DomainName">>)
  @@ "GetDomainName" :> Out(<<"DomainName">>)
  @@ "SetAddressRange" :> In(<<"MinAddress", "MaxAddress">>)
LHCM_actions4 ==
  "GetAddressRange" :> Out(<<"MinAddress", "MaxAddress">>)
  @@ "SetReservedAddress" :> In(<<"ReservedAddresses">>)
  @@ "DeleteReservedAddress" :> In(<<"ReservedAddresses">>)
  @@ "GetReservedAddresses" :> Out(<<"ReservedAddresses">>)
LHCM_actions5 ==
  "SetDNSServer" :> In(<<"DNSServers">>)
  @@ "DeleteDNSServer" :> In(<<"DNSServers">>)
  @@ "GetDNSServers" :> Out(<<"DNSServers">>)
LHCM_stateTable ==
  {"DHCPServerConfigurable", "DHCPRelay", "SubnetMask",
   "IPRouters", "DNSServers", "DomainName", "MinAddress", "MaxAddress",
   "ReservedAddresses"}
gen_igd1_service_LANHostConfigManagement1_xml == Service(
  LHCM_actions1 @@ LHCM_actions2
    @@ LHCM_actions3 @@ LHCM_actions4
    @@ LHCM_actions5,
  LHCM_stateTable)
=============================================================================
