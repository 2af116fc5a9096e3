--------------------------- MODULE DataModelRoots ---------------------------
(***************************************************************************)
(* The classes of models/sep.py and models/derforecasts.py, as far as the  *)
(* server depends on them.  xml_to_dataclass is called without a type and  *)
(* answers with an object of whatever class the root element names, so     *)
(* what a handler does with a request depends on the class: whether it has *)
(* an href, whether it is an instance of another, which lists and links it *)
(* may carry, and which of its elements a document must have.              *)
(*                                                                         *)
(* Class(name, base, required, links, lists): the base class, the elements *)
(* and attributes marked as required, the elements that are links, and the *)
(* elements that may be repeated.  Other elements are left out, and so are *)
(* the types of the elements.                                              *)
(*                                                                         *)
(* This module has the classes up to line 3560 of sep.py, which inherit    *)
(* from nothing, or from one that does; DataModel has the others.          *)
(***************************************************************************)
EXTENDS Naturals

Class(name, base, required, links, lists) ==
  [name |-> name, base |-> base, required |-> required, links |-> links, lists |-> lists]

-----------------------------------------------------------------------------
(* models/sep.py *)

ActivePower == Class("ActivePower", "", {"multiplier", "value"}, {}, {})
AmpereHour == Class("AmpereHour", "", {"multiplier", "value"}, {}, {})
ApparentPower == Class("ApparentPower", "", {"multiplier", "value"}, {}, {})
ApplianceLoadReduction == Class("ApplianceLoadReduction", "", {"type"}, {}, {})
AppliedTargetReduction == Class("AppliedTargetReduction", "", {"type", "value"}, {}, {})
Charge == Class("Charge", "", {"value"}, {}, {})
Condition == Class("Condition", "", {"attributeIdentifier", "lowerThreshold",
    "upperThreshold"}, {}, {})
ConnectStatusType == Class("ConnectStatusType", "", {"dateTime", "value"}, {}, {})
CreditTypeChange == Class("CreditTypeChange", "", {"newType", "startTime"}, {}, {})
CurrentRMS == Class("CurrentRMS", "", {"multiplier", "value"}, {}, {})
CurveData == Class("CurveData", "", {"xvalue", "yvalue"}, {}, {})
DateTimeInterval == Class("DateTimeInterval", "", {"duration", "start"}, {}, {})
DutyCycle == Class("DutyCycle", "", {"normalValue"}, {}, {})
EnvironmentalCost == Class("EnvironmentalCost", "", {"amount", "costKind", "costLevel",
    "numCostLevels"}, {}, {})
Error == Class("Error", "", {"reasonCode"}, {}, {})
EventStatus == Class("EventStatus", "", {"currentStatus", "dateTime", "potentiallySuperseded"},
    {}, {})
FixedPointType == Class("FixedPointType", "", {"multiplier", "value"}, {}, {})
FixedVar == Class("FixedVar", "", {"refType", "value"}, {}, {})
FreqDroopType == Class("FreqDroopType", "", {"dBOF", "dBUF", "kOF", "kUF", "openLoopTms"}, {}, {})
GPSLocationType == Class("GPSLocationType", "", {"lat", "lon"}, {}, {})
InverterStatusType == Class("InverterStatusType", "", {"dateTime", "value"}, {}, {})
Link == Class("Link", "", {"href"}, {}, {})
LocalControlModeStatusType == Class("LocalControlModeStatusType", "", {"dateTime", "value"}, {}, {})
ManufacturerStatusType == Class("ManufacturerStatusType", "", {"dateTime", "value"}, {}, {})
Offset == Class("Offset", "", {}, {}, {})
OperationalModeStatusType == Class("OperationalModeStatusType", "", {"dateTime", "value"}, {}, {})
PowerConfiguration == Class("PowerConfiguration", "", {}, {}, {})
PowerFactor == Class("PowerFactor", "", {"displacement", "multiplier"}, {}, {})
PowerFactorWithExcitation == Class("PowerFactorWithExcitation", "", {"displacement",
    "excitation", "multiplier"}, {}, {})
ReactivePower == Class("ReactivePower", "", {"multiplier", "value"}, {}, {})
ReactiveSusceptance == Class("ReactiveSusceptance", "", {"multiplier", "value"}, {}, {})
RealEnergy == Class("RealEnergy", "", {"multiplier", "value"}, {}, {})
RequestStatus == Class("RequestStatus", "", {"dateTime", "requestStatus"}, {}, {})
Resource == Class("Resource", "", {}, {}, {})
ServiceChange == Class("ServiceChange", "", {"newStatus", "startTime"}, {}, {})
SetPoint == Class("SetPoint", "", {}, {}, {})
SignedRealEnergy == Class("SignedRealEnergy", "", {"multiplier", "value"}, {}, {})
StateOfChargeStatusType == Class("StateOfChargeStatusType", "", {"dateTime", "value"}, {}, {})
StorageModeStatusType == Class("StorageModeStatusType", "", {"dateTime", "value"}, {}, {})
TargetReduction == Class("TargetReduction", "", {"type", "value"}, {}, {})
Temperature == Class("Temperature", "", {"multiplier", "subject", "value"}, {}, {})
TimeConfiguration == Class("TimeConfiguration", "", {"dstEndRule", "dstOffset", "dstStartRule",
    "tzOffset"}, {}, {})
UnitValueType == Class("UnitValueType", "", {"multiplier", "unit", "value"}, {}, {})
UnsignedFixedPointType == Class("UnsignedFixedPointType", "", {"multiplier", "value"}, {}, {})
VoltageRMS == Class("VoltageRMS", "", {"multiplier", "value"}, {}, {})
WattHour == Class("WattHour", "", {"multiplier", "value"}, {}, {})
loWPAN == Class("loWPAN", "", {"packetsRx", "packetsTx", "rxFragError"}, {}, {})
AccountBalanceLink == Class("AccountBalanceLink", "Link", {}, {}, {})
AccountingUnit == Class("AccountingUnit", "", {"monetaryUnit", "multiplier", "value"}, {}, {})
AssociatedUsagePointLink == Class("AssociatedUsagePointLink", "Link", {}, {}, {})
BillingPeriod == Class("BillingPeriod", "Resource", {"interval"}, {}, {})
ConfigurationLink == Class("ConfigurationLink", "Link", {}, {}, {})
ConsumptionTariffInterval == Class("ConsumptionTariffInterval", "Resource",
    {"consumptionBlock", "startValue"}, {}, {"EnvironmentalCost"})
CurrentDERProgramLink == Class("CurrentDERProgramLink", "Link", {}, {}, {})
CustomerAccountLink == Class("CustomerAccountLink", "Link", {}, {}, {})
DERAvailabilityLink == Class("DERAvailabilityLink", "Link", {}, {}, {})
DERCapability == Class("DERCapability", "Resource", {"modesSupported", "rtgMaxW", "type"}, {}, {})
DERCapabilityLink == Class("DERCapabilityLink", "Link", {}, {}, {})
DERCurveLink == Class("DERCurveLink", "Link", {}, {}, {})
DERLink == Class("DERLink", "Link", {}, {}, {})
DERProgramLink == Class("DERProgramLink", "Link", {}, {}, {})
DERSettingsLink == Class("DERSettingsLink", "Link", {}, {}, {})
DERStatusLink == Class("DERStatusLink", "Link", {}, {}, {})
DRLCCapabilities == Class("DRLCCapabilities", "", {"averageEnergy", "maxDemand",
    "optionsImplemented"}, {}, {})
DefaultDERControlLink == Class("DefaultDERControlLink", "Link", {}, {}, {})
DemandResponseProgramLink == Class("DemandResponseProgramLink", "Link", {}, {}, {})
DeviceCapabilityLink == Class("DeviceCapabilityLink", "Link", {}, {}, {})
DeviceInformationLink == Class("DeviceInformationLink", "Link", {}, {}, {})
DeviceStatusLink == Class("DeviceStatusLink", "Link", {}, {}, {})
EndDeviceLink == Class("EndDeviceLink", "Link", {}, {}, {})
File == Class("File", "Resource", {"fileURI", "mfID", "mfModel", "mfVer", "size", "type"}, {}, {})
FileLink == Class("FileLink", "Link", {}, {}, {})
FileStatusLink == Class("FileStatusLink", "Link", {}, {}, {})
IdentifiedObject == Class("IdentifiedObject", "Resource", {"mRID"}, {}, {})
List_type == Class("List_type", "Resource", {"all", "results"}, {}, {})
ListLink == Class("ListLink", "Link", {}, {}, {})
LogEvent == Class("LogEvent", "Resource", {"createdDateTime", "functionSet", "logEventCode",
    "logEventID", "logEventPEN", "profileID"}, {}, {})
MeterReadingLink == Class("MeterReadingLink", "Link", {}, {}, {})
Neighbor == Class("Neighbor", "Resource", {"isChild", "linkQuality", "shortAddress"}, {}, {})
PEVInfo == Class("PEVInfo", "", {"chargingPowerNow", "energyRequestNow", "maxForwardPower",
    "minimumChargingDuration", "targetStateOfCharge", "timeChargeIsNeeded",
    "timeChargingStatusPEV"}, {}, {})
PowerStatusLink == Class("PowerStatusLink", "Link", {}, {}, {})
PrepayOperationStatus == Class("PrepayOperationStatus", "Resource", {"serviceStatus"}, {}, {})
PrepayOperationStatusLink == Class("PrepayOperationStatusLink", "Link", {}, {}, {})
PrepaymentLink == Class("PrepaymentLink", "Link", {}, {}, {})
RPLSourceRoutes == Class("RPLSourceRoutes", "Resource", {"DestAddress", "SourceRoute"}, {}, {})
RateComponentLink == Class("RateComponentLink", "Link", {}, {}, {})
ReadingBase == Class("ReadingBase", "Resource", {}, {}, {})
ReadingLink == Class("ReadingLink", "Link", {}, {}, {})
ReadingType == Class("ReadingType", "Resource", {}, {}, {})
ReadingTypeLink == Class("ReadingTypeLink", "Link", {}, {}, {})
Registration == Class("Registration", "Resource", {"dateTimeRegistered", "pIN"}, {}, {})
RegistrationLink == Class("RegistrationLink", "Link", {}, {}, {})
RespondableResource == Class("RespondableResource", "Resource", {}, {}, {})
Response == Class("Response", "Resource", {"endDeviceLFDI", "subject"}, {}, {})
SelfDeviceLink == Class("SelfDeviceLink", "Link", {}, {}, {})
ServiceSupplierLink == Class("ServiceSupplierLink", "Link", {}, {}, {})
SubscribableResource == Class("SubscribableResource", "Resource", {}, {}, {})
SubscriptionBase == Class("SubscriptionBase", "Resource", {"subscribedResource"}, {}, {})
SupplyInterruptionOverride == Class("SupplyInterruptionOverride", "Resource", {"interval"}, {}, {})
SupportedLocale == Class("SupportedLocale", "Resource", {"locale"}, {}, {})
TariffProfileLink == Class("TariffProfileLink", "Link", {}, {}, {})
Time == Class("Time", "Resource", {"currentTime", "dstEndTime", "dstOffset", "dstStartTime",
    "quality", "tzOffset"}, {}, {})
TimeLink == Class("TimeLink", "Link", {}, {}, {})
UsagePointLink == Class("UsagePointLink", "Link", {}, {}, {})
AccountBalance == Class("AccountBalance", "Resource", {"availableCredit"}, {}, {})
=============================================================================
