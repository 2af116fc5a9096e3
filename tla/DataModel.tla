----------------------------- MODULE DataModel -----------------------------
(***************************************************************************)
(* The classes of models/sep.py that inherit from those of DataModelRoots, *)
(* those of models/derforecasts.py, and what is asked of them all.         *)
(***************************************************************************)
EXTENDS DataModelRoots

ActiveBillingPeriodListLink == Class("ActiveBillingPeriodListLink", "ListLink", {}, {}, {})
ActiveCreditRegisterListLink == Class("ActiveCreditRegisterListLink", "ListLink", {}, {}, {})
ActiveDERControlListLink == Class("ActiveDERControlListLink", "ListLink", {}, {}, {})
ActiveEndDeviceControlListLink == Class("ActiveEndDeviceControlListLink", "ListLink", {}, {}, {})
ActiveFlowReservationListLink == Class("ActiveFlowReservationListLink", "ListLink", {}, {}, {})
ActiveProjectionReadingListLink == Class("ActiveProjectionReadingListLink", "ListLink", {}, {}, {})
ActiveSupplyInterruptionOverrideListLink == Class("ActiveSupplyInterruptionOverrideListLink",
    "ListLink", {}, {}, {})
ActiveTargetReadingListLink == Class("ActiveTargetReadingListLink", "ListLink", {}, {}, {})
ActiveTextMessageListLink == Class("ActiveTextMessageListLink", "ListLink", {}, {}, {})
ActiveTimeTariffIntervalListLink == Class("ActiveTimeTariffIntervalListLink", "ListLink", {},
    {}, {})
AssociatedDERProgramListLink == Class("AssociatedDERProgramListLink", "ListLink", {}, {}, {})
BillingPeriodListLink == Class("BillingPeriodListLink", "ListLink", {}, {}, {})
BillingReading == Class("BillingReading", "ReadingBase", {}, {}, {"Charge"})
BillingReadingListLink == Class("BillingReadingListLink", "ListLink", {}, {}, {})
BillingReadingSetListLink == Class("BillingReadingSetListLink", "ListLink", {}, {}, {})
ConsumptionTariffIntervalList == Class("ConsumptionTariffIntervalList", "List_type", {}, {},
    {"ConsumptionTariffInterval"})
ConsumptionTariffIntervalListLink == Class("ConsumptionTariffIntervalListLink", "ListLink", {},
    {}, {})
CreditRegister == Class("CreditRegister", "IdentifiedObject", {"creditAmount", "effectiveTime",
    "token"}, {}, {})
CreditRegisterListLink == Class("CreditRegisterListLink", "ListLink", {}, {}, {})
CustomerAccountListLink == Class("CustomerAccountListLink", "ListLink", {}, {}, {})
CustomerAgreementListLink == Class("CustomerAgreementListLink", "ListLink", {}, {}, {})
DERAvailability == Class("DERAvailability", "SubscribableResource", {"readingTime"}, {}, {})
DERControlBase == Class("DERControlBase", "", {}, {}, {})
DERControlListLink == Class("DERControlListLink", "ListLink", {}, {}, {})
DERControlResponse == Class("DERControlResponse", "Response", {}, {}, {})
DERCurve == Class("DERCurve", "IdentifiedObject", {"creationTime", "curveType", "xMultiplier",
    "yMultiplier", "yRefType"}, {}, {"CurveData"})
DERCurveListLink == Class("DERCurveListLink", "ListLink", {}, {}, {})
DERListLink == Class("DERListLink", "ListLink", {}, {}, {})
DERProgramListLink == Class("DERProgramListLink", "ListLink", {}, {}, {})
DERSettings == Class("DERSettings", "SubscribableResource", {"setGradW", "setMaxW",
    "updatedTime"}, {}, {})
DERStatus == Class("DERStatus", "SubscribableResource", {"readingTime"}, {}, {})
DemandResponseProgramListLink == Class("DemandResponseProgramListLink", "ListLink", {}, {}, {})
DeviceStatus == Class("DeviceStatus", "Resource", {"changedTime"}, {"TimeLink"}, {"Temperature"})
DrResponse == Class("DrResponse", "Response", {}, {}, {})
EndDeviceControlListLink == Class("EndDeviceControlListLink", "ListLink", {}, {}, {})
EndDeviceListLink == Class("EndDeviceListLink", "ListLink", {}, {}, {})
FileList == Class("FileList", "List_type", {}, {}, {"File"})
FileListLink == Class("FileListLink", "ListLink", {}, {}, {})
FileStatus == Class("FileStatus", "Resource", {"loadPercent", "nextRequestAttempt",
    "request503Count", "requestFailCount", "status", "statusTime"}, {"FileLink"}, {})
FlowReservationRequest == Class("FlowReservationRequest", "IdentifiedObject", {"creationTime",
    "energyRequested", "intervalRequested", "powerRequested", "RequestStatus"}, {}, {})
FlowReservationRequestListLink == Class("FlowReservationRequestListLink", "ListLink", {}, {}, {})
FlowReservationResponseListLink == Class("FlowReservationResponseListLink", "ListLink", {}, {}, {})
FlowReservationResponseResponse == Class("FlowReservationResponseResponse", "Response", {}, {}, {})
FunctionSetAssignmentsListLink == Class("FunctionSetAssignmentsListLink", "ListLink", {}, {}, {})
HistoricalReadingListLink == Class("HistoricalReadingListLink", "ListLink", {}, {}, {})
IPAddrListLink == Class("IPAddrListLink", "ListLink", {}, {}, {})
IPInterfaceListLink == Class("IPInterfaceListLink", "ListLink", {}, {}, {})
LLInterfaceListLink == Class("LLInterfaceListLink", "ListLink", {}, {}, {})
LoadShedAvailability == Class("LoadShedAvailability", "Resource", {},
    {"DemandResponseProgramLink"}, {})
LoadShedAvailabilityListLink == Class("LoadShedAvailabilityListLink", "ListLink", {}, {}, {})
LogEventListLink == Class("LogEventListLink", "ListLink", {}, {}, {})
MessagingProgramListLink == Class("MessagingProgramListLink", "ListLink", {}, {}, {})
MeterReadingBase == Class("MeterReadingBase", "IdentifiedObject", {}, {}, {})
MeterReadingListLink == Class("MeterReadingListLink", "ListLink", {}, {}, {})
MirrorUsagePointListLink == Class("MirrorUsagePointListLink", "ListLink", {}, {}, {})
NeighborList == Class("NeighborList", "List_type", {}, {}, {"Neighbor"})
NeighborListLink == Class("NeighborListLink", "ListLink", {}, {}, {})
Notification == Class("Notification", "SubscriptionBase", {"status", "subscriptionURI"}, {}, {})
NotificationListLink == Class("NotificationListLink", "ListLink", {}, {}, {})
PowerStatus == Class("PowerStatus", "Resource", {"batteryStatus", "changedTime",
    "currentPowerSource"}, {}, {})
PrepaymentListLink == Class("PrepaymentListLink", "ListLink", {}, {}, {})
PriceResponse == Class("PriceResponse", "Response", {}, {}, {})
PriceResponseCfg == Class("PriceResponseCfg", "Resource", {"consumeThreshold",
    "maxReductionThreshold", "RateComponentLink"}, {"RateComponentLink"}, {})
PriceResponseCfgListLink == Class("PriceResponseCfgListLink", "ListLink", {}, {}, {})
ProjectionReadingListLink == Class("ProjectionReadingListLink", "ListLink", {}, {}, {})
RPLInstanceListLink == Class("RPLInstanceListLink", "ListLink", {}, {}, {})
RPLSourceRoutesList == Class("RPLSourceRoutesList", "List_type", {}, {}, {"RPLSourceRoutes"})
RPLSourceRoutesListLink == Class("RPLSourceRoutesListLink", "ListLink", {}, {}, {})
RateComponentListLink == Class("RateComponentListLink", "ListLink", {}, {}, {})
Reading == Class("Reading", "ReadingBase", {}, {}, {})
ReadingListLink == Class("ReadingListLink", "ListLink", {}, {}, {})
ReadingSetBase == Class("ReadingSetBase", "IdentifiedObject", {"timePeriod"}, {}, {})
ReadingSetListLink == Class("ReadingSetListLink", "ListLink", {}, {}, {})
RespondableIdentifiedObject == Class("RespondableIdentifiedObject", "RespondableResource",
    {"mRID"}, {}, {})
RespondableSubscribableIdentifiedObject == Class("RespondableSubscribableIdentifiedObject",
    "RespondableResource", {"mRID"}, {}, {})
ResponseList == Class("ResponseList", "List_type", {}, {}, {"Response"})
ResponseListLink == Class("ResponseListLink", "ListLink", {}, {}, {})
ResponseSetListLink == Class("ResponseSetListLink", "ListLink", {}, {}, {})
ServiceSupplier == Class("ServiceSupplier", "IdentifiedObject", {}, {}, {})
SubscribableIdentifiedObject == Class("SubscribableIdentifiedObject", "SubscribableResource",
    {"mRID"}, {}, {})
SubscribableList == Class("SubscribableList", "SubscribableResource", {"all", "results"}, {}, {})
Subscription == Class("Subscription", "SubscriptionBase", {"encoding", "level", "limit",
    "notificationURI"}, {}, {})
SubscriptionListLink == Class("SubscriptionListLink", "ListLink", {}, {}, {})
SupplyInterruptionOverrideList == Class("SupplyInterruptionOverrideList", "List_type", {}, {},
    {"SupplyInterruptionOverride"})
SupplyInterruptionOverrideListLink == Class("SupplyInterruptionOverrideListLink", "ListLink",
    {}, {}, {})
SupportedLocaleList == Class("SupportedLocaleList", "List_type", {}, {}, {"SupportedLocale"})
SupportedLocaleListLink == Class("SupportedLocaleListLink", "ListLink", {}, {}, {})
TargetReadingListLink == Class("TargetReadingListLink", "ListLink", {}, {}, {})
TariffProfileListLink == Class("TariffProfileListLink", "ListLink", {}, {}, {})
TextMessageListLink == Class("TextMessageListLink", "ListLink", {}, {}, {})
TextResponse == Class("TextResponse", "Response", {}, {}, {})
TimeTariffIntervalListLink == Class("TimeTariffIntervalListLink", "ListLink", {}, {}, {})
UsagePointBase == Class("UsagePointBase", "IdentifiedObject", {"roleFlags",
    "serviceCategoryKind", "status"}, {}, {})
UsagePointListLink == Class("UsagePointListLink", "ListLink", {}, {}, {})
AbstractDevice == Class("AbstractDevice", "SubscribableResource", {"sFDI"},
    {"ConfigurationLink", "DERListLink", "DeviceInformationLink", "DeviceStatusLink",
    "FileStatusLink", "IPInterfaceListLink", "LoadShedAvailabilityListLink",
    "LogEventListLink", "PowerStatusLink"}, {})
BillingMeterReadingBase == Class("BillingMeterReadingBase", "MeterReadingBase", {},
    {"BillingReadingSetListLink", "ReadingTypeLink"}, {})
BillingPeriodList == Class("BillingPeriodList", "SubscribableList", {}, {}, {"BillingPeriod"})
BillingReadingList == Class("BillingReadingList", "List_type", {}, {}, {"BillingReading"})
BillingReadingSet == Class("BillingReadingSet", "ReadingSetBase", {},
    {"BillingReadingListLink"}, {})
Configuration == Class("Configuration", "SubscribableResource", {"currentLocale",
    "userDeviceName"}, {"PriceResponseCfgListLink"}, {})
CreditRegisterList == Class("CreditRegisterList", "List_type", {}, {}, {"CreditRegister"})
CustomerAccount == Class("CustomerAccount", "IdentifiedObject", {"currency",
    "pricePowerOfTenMultiplier"}, {"CustomerAgreementListLink", "ServiceSupplierLink"}, {})
CustomerAgreement == Class("CustomerAgreement", "IdentifiedObject", {},
    {"ActiveBillingPeriodListLink", "ActiveProjectionReadingListLink",
    "ActiveTargetReadingListLink", "BillingPeriodListLink", "HistoricalReadingListLink",
    "PrepaymentLink", "ProjectionReadingListLink", "TargetReadingListLink",
    "TariffProfileLink", "UsagePointLink"}, {})
DER == Class("DER", "SubscribableResource", {}, {"AssociatedDERProgramListLink",
    "AssociatedUsagePointLink", "CurrentDERProgramLink", "DERAvailabilityLink",
    "DERCapabilityLink", "DERSettingsLink", "DERStatusLink"}, {})
DERCurveList == Class("DERCurveList", "List_type", {}, {}, {"DERCurve"})
DERProgram == Class("DERProgram", "SubscribableIdentifiedObject", {"primacy"},
    {"ActiveDERControlListLink", "DefaultDERControlLink", "DERControlListLink",
    "DERCurveListLink"}, {})
DefaultDERControl == Class("DefaultDERControl", "SubscribableIdentifiedObject",
    {"DERControlBase"}, {}, {})
DemandResponseProgram == Class("DemandResponseProgram", "IdentifiedObject", {"primacy"},
    {"ActiveEndDeviceControlListLink", "EndDeviceControlListLink"}, {})
DeviceInformation == Class("DeviceInformation", "Resource", {"lFDI", "mfDate", "mfHwVer",
    "mfID", "mfModel", "mfSerNum", "primaryPower", "secondaryPower", "swActTime", "swVer"},
    {"SupportedLocaleListLink"}, {})
Event == Class("Event", "RespondableSubscribableIdentifiedObject", {"creationTime",
    "EventStatus", "interval"}, {}, {})
FlowReservationRequestList == Class("FlowReservationRequestList", "List_type", {}, {},
    {"FlowReservationRequest"})
FunctionSetAssignmentsBase == Class("FunctionSetAssignmentsBase", "Resource", {},
    {"CustomerAccountListLink", "DemandResponseProgramListLink", "DERProgramListLink",
    "FileListLink", "MessagingProgramListLink", "PrepaymentListLink", "ResponseSetListLink",
    "TariffProfileListLink", "TimeLink", "UsagePointListLink"}, {})
IEEE_802_15_4 == Class("IEEE_802_15_4", "", {"capabilityInfo", "shortAddress"},
    {"NeighborListLink"}, {})
IPAddr == Class("IPAddr", "Resource", {"address"}, {"RPLInstanceListLink"}, {})
IPInterface == Class("IPInterface", "Resource", {}, {"IPAddrListLink", "LLInterfaceListLink"}, {})
LoadShedAvailabilityList == Class("LoadShedAvailabilityList", "List_type", {}, {},
    {"LoadShedAvailability"})
LogEventList == Class("LogEventList", "SubscribableList", {}, {}, {"LogEvent"})
MessagingProgram == Class("MessagingProgram", "SubscribableIdentifiedObject", {"locale",
    "primacy"}, {"ActiveTextMessageListLink", "TextMessageListLink"}, {})
MeterReading == Class("MeterReading", "MeterReadingBase", {"ReadingTypeLink"},
    {"RateComponentListLink", "ReadingLink", "ReadingSetListLink", "ReadingTypeLink"}, {})
MirrorReadingSet == Class("MirrorReadingSet", "ReadingSetBase", {}, {}, {"Reading"})
NotificationList == Class("NotificationList", "List_type", {}, {}, {"Notification"})
PriceResponseCfgList == Class("PriceResponseCfgList", "List_type", {}, {}, {"PriceResponseCfg"})
RPLInstance == Class("RPLInstance", "Resource", {"DODAGid", "DODAGroot", "flags",
    "groundedFlag", "MOP", "PRF", "rank", "RPLInstanceID", "versionNumber"},
    {"RPLSourceRoutesListLink"}, {})
RateComponent == Class("RateComponent", "IdentifiedObject", {"ReadingTypeLink", "roleFlags",
    "TimeTariffIntervalListLink"}, {"ActiveTimeTariffIntervalListLink", "ReadingTypeLink",
    "TimeTariffIntervalListLink"}, {})
ReadingList == Class("ReadingList", "SubscribableList", {}, {}, {"Reading"})
ReadingSet == Class("ReadingSet", "ReadingSetBase", {}, {"ReadingListLink"}, {})
ResponseSet == Class("ResponseSet", "IdentifiedObject", {}, {"ResponseListLink"}, {})
ServiceSupplierList == Class("ServiceSupplierList", "List_type", {}, {}, {"ServiceSupplier"})
SubscriptionList == Class("SubscriptionList", "List_type", {}, {}, {"Subscription"})
TariffProfile == Class("TariffProfile", "IdentifiedObject", {"primacy", "serviceCategoryKind"},
    {"RateComponentListLink"}, {})
UsagePoint == Class("UsagePoint", "UsagePointBase", {}, {"MeterReadingListLink"}, {})
BillingReadingSetList == Class("BillingReadingSetList", "SubscribableList", {}, {},
    {"BillingReadingSet"})
CustomerAccountList == Class("CustomerAccountList", "SubscribableList", {}, {}, {"CustomerAccount"})
CustomerAgreementList == Class("CustomerAgreementList", "SubscribableList", {}, {},
    {"CustomerAgreement"})
DERList == Class("DERList", "List_type", {}, {}, {"DER"})
DERProgramList == Class("DERProgramList", "SubscribableList", {}, {}, {"DERProgram"})
DemandResponseProgramList == Class("DemandResponseProgramList", "SubscribableList", {}, {},
    {"DemandResponseProgram"})
DeviceCapability == Class("DeviceCapability", "FunctionSetAssignmentsBase", {},
    {"EndDeviceListLink", "MirrorUsagePointListLink", "SelfDeviceLink"}, {})
EndDevice == Class("EndDevice", "AbstractDevice", {"changedTime"},
    {"FlowReservationRequestListLink", "FlowReservationResponseListLink",
    "FunctionSetAssignmentsListLink", "RegistrationLink", "SubscriptionListLink"}, {})
FlowReservationResponse == Class("FlowReservationResponse", "Event", {"energyAvailable",
    "powerAvailable", "subject"}, {}, {})
FunctionSetAssignments == Class("FunctionSetAssignments", "FunctionSetAssignmentsBase",
    {"mRID"}, {}, {})
HistoricalReading == Class("HistoricalReading", "BillingMeterReadingBase", {}, {}, {})
IPAddrList == Class("IPAddrList", "List_type", {}, {}, {"IPAddr"})
IPInterfaceList == Class("IPInterfaceList", "List_type", {}, {}, {"IPInterface"})
LLInterface == Class("LLInterface", "Resource", {"CRCerrors", "EUI64", "linkLayerType"}, {}, {})
MessagingProgramList == Class("MessagingProgramList", "SubscribableList", {}, {},
    {"MessagingProgram"})
MeterReadingList == Class("MeterReadingList", "SubscribableList", {}, {}, {"MeterReading"})
MirrorMeterReading == Class("MirrorMeterReading", "MeterReadingBase", {}, {}, {"MirrorReadingSet"})
Prepayment == Class("Prepayment", "IdentifiedObject", {"AccountBalanceLink",
    "CreditRegisterListLink", "prepayMode", "PrepayOperationStatusLink",
    "SupplyInterruptionOverrideListLink"}, {"AccountBalanceLink",
    "ActiveCreditRegisterListLink", "ActiveSupplyInterruptionOverrideListLink",
    "CreditRegisterListLink", "PrepayOperationStatusLink",
    "SupplyInterruptionOverrideListLink", "UsagePointLink"}, {"UsagePoint"})
ProjectionReading == Class("ProjectionReading", "BillingMeterReadingBase", {}, {}, {})
RPLInstanceList == Class("RPLInstanceList", "List_type", {}, {}, {"RPLInstance"})
RandomizableEvent == Class("RandomizableEvent", "Event", {}, {}, {})
RateComponentList == Class("RateComponentList", "List_type", {}, {}, {"RateComponent"})
ReadingSetList == Class("ReadingSetList", "SubscribableList", {}, {}, {"ReadingSet"})
ResponseSetList == Class("ResponseSetList", "List_type", {}, {}, {"ResponseSet"})
SelfDevice == Class("SelfDevice", "AbstractDevice", {}, {}, {})
TargetReading == Class("TargetReading", "BillingMeterReadingBase", {}, {}, {})
TariffProfileList == Class("TariffProfileList", "SubscribableList", {}, {}, {"TariffProfile"})
TextMessage == Class("TextMessage", "Event", {"priority", "textMessage"}, {}, {})
UsagePointList == Class("UsagePointList", "SubscribableList", {}, {}, {"UsagePoint"})
DERControl == Class("DERControl", "RandomizableEvent", {"DERControlBase"}, {}, {})
EndDeviceControl == Class("EndDeviceControl", "RandomizableEvent", {"deviceCategory",
    "drProgramMandatory", "loadShiftForward"}, {}, {})
EndDeviceList == Class("EndDeviceList", "SubscribableList", {}, {}, {"EndDevice"})
FlowReservationResponseList == Class("FlowReservationResponseList", "SubscribableList", {}, {},
    {"FlowReservationResponse"})
FunctionSetAssignmentsList == Class("FunctionSetAssignmentsList", "SubscribableList", {}, {},
    {"FunctionSetAssignments"})
HistoricalReadingList == Class("HistoricalReadingList", "List_type", {}, {}, {"HistoricalReading"})
LLInterfaceList == Class("LLInterfaceList", "List_type", {}, {}, {"LLInterface"})
MirrorMeterReadingList == Class("MirrorMeterReadingList", "List_type", {}, {},
    {"MirrorMeterReading"})
MirrorUsagePoint == Class("MirrorUsagePoint", "UsagePointBase", {"deviceLFDI"}, {},
    {"MirrorMeterReading"})
PrepaymentList == Class("PrepaymentList", "SubscribableList", {}, {}, {"Prepayment"})
ProjectionReadingList == Class("ProjectionReadingList", "List_type", {}, {}, {"ProjectionReading"})
TargetReadingList == Class("TargetReadingList", "List_type", {}, {}, {"TargetReading"})
TextMessageList == Class("TextMessageList", "SubscribableList", {}, {}, {"TextMessage"})
TimeTariffInterval == Class("TimeTariffInterval", "RandomizableEvent", {"touTier"},
    {"ConsumptionTariffIntervalListLink"}, {})
DERControlList == Class("DERControlList", "SubscribableList", {}, {}, {"DERControl"})
EndDeviceControlList == Class("EndDeviceControlList", "SubscribableList", {}, {},
    {"EndDeviceControl"})
MirrorUsagePointList == Class("MirrorUsagePointList", "List_type", {}, {}, {"MirrorUsagePoint"})
TimeTariffIntervalList == Class("TimeTariffIntervalList", "SubscribableList", {}, {},
    {"TimeTariffInterval"})
-----------------------------------------------------------------------------
(* models/derforecasts.py *)

ForecastNumericType == Class("ForecastNumericType", "", {"value", "multiplier"}, {}, {})
DERForecastLink == Class("DERForecastLink", "Link", {}, {}, {})
ForecastParameter == Class("ForecastParameter", "", {"name", "forecast"}, {}, {})
DERFlexibility == Class("DERFlexibility", "DER", {}, {"DERForecastLink"}, {})
ForecastParameterSet == Class("ForecastParameterSet", "Resource", {}, {}, {"ForecastParameter"})
ForecastParameterSetList == Class("ForecastParameterSetList", "SubscribableList", {}, {},
    {"ForecastParameterSet"})
DERForecast == Class("DERForecast", "IdentifiedObject", {"startTime", "interval"}, {}, {})
-----------------------------------------------------------------------------
(* The whole model. *)

Classes == {ActivePower, AmpereHour, ApparentPower, ApplianceLoadReduction,
  AppliedTargetReduction, Charge, Condition, ConnectStatusType, CreditTypeChange, CurrentRMS,
  CurveData, DateTimeInterval, DutyCycle, EnvironmentalCost, Error, EventStatus,
  FixedPointType, FixedVar, FreqDroopType, GPSLocationType, InverterStatusType, Link,
  LocalControlModeStatusType, ManufacturerStatusType, Offset, OperationalModeStatusType,
  PowerConfiguration, PowerFactor, PowerFactorWithExcitation, ReactivePower,
  ReactiveSusceptance, RealEnergy, RequestStatus, Resource, ServiceChange, SetPoint,
  SignedRealEnergy, StateOfChargeStatusType, StorageModeStatusType, TargetReduction,
  Temperature, TimeConfiguration, UnitValueType, UnsignedFixedPointType, VoltageRMS, WattHour,
  loWPAN, AccountBalanceLink, AccountingUnit, AssociatedUsagePointLink, BillingPeriod,
  ConfigurationLink, ConsumptionTariffInterval, CurrentDERProgramLink, CustomerAccountLink,
  DERAvailabilityLink, DERCapability, DERCapabilityLink, DERCurveLink, DERLink, DERProgramLink,
  DERSettingsLink, DERStatusLink, DRLCCapabilities, DefaultDERControlLink,
  DemandResponseProgramLink, DeviceCapabilityLink, DeviceInformationLink, DeviceStatusLink,
  EndDeviceLink, File, FileLink, FileStatusLink, IdentifiedObject, List_type, ListLink,
  LogEvent, MeterReadingLink, Neighbor, PEVInfo, PowerStatusLink, PrepayOperationStatus,
  PrepayOperationStatusLink, PrepaymentLink, RPLSourceRoutes, RateComponentLink, ReadingBase,
  ReadingLink, ReadingType, ReadingTypeLink, Registration, RegistrationLink,
  RespondableResource, Response, SelfDeviceLink, ServiceSupplierLink, SubscribableResource,
  SubscriptionBase, SupplyInterruptionOverride, SupportedLocale, TariffProfileLink, Time,
  TimeLink, UsagePointLink, AccountBalance, ActiveBillingPeriodListLink,
  ActiveCreditRegisterListLink, ActiveDERControlListLink, ActiveEndDeviceControlListLink,
  ActiveFlowReservationListLink, ActiveProjectionReadingListLink,
  ActiveSupplyInterruptionOverrideListLink, ActiveTargetReadingListLink,
  ActiveTextMessageListLink, ActiveTimeTariffIntervalListLink, AssociatedDERProgramListLink,
  BillingPeriodListLink, BillingReading, BillingReadingListLink, BillingReadingSetListLink,
  ConsumptionTariffIntervalList, ConsumptionTariffIntervalListLink, CreditRegister,
  CreditRegisterListLink, CustomerAccountListLink, CustomerAgreementListLink, DERAvailability,
  DERControlBase, DERControlListLink, DERControlResponse, DERCurve, DERCurveListLink,
  DERListLink, DERProgramListLink, DERSettings, DERStatus, DemandResponseProgramListLink,
  DeviceStatus, DrResponse, EndDeviceControlListLink, EndDeviceListLink, FileList,
  FileListLink, FileStatus, FlowReservationRequest, FlowReservationRequestListLink,
  FlowReservationResponseListLink, FlowReservationResponseResponse,
  FunctionSetAssignmentsListLink, HistoricalReadingListLink, IPAddrListLink,
  IPInterfaceListLink, LLInterfaceListLink, LoadShedAvailability, LoadShedAvailabilityListLink,
  LogEventListLink, MessagingProgramListLink, MeterReadingBase, MeterReadingListLink,
  MirrorUsagePointListLink, NeighborList, NeighborListLink, Notification, NotificationListLink,
  PowerStatus, PrepaymentListLink, PriceResponse, PriceResponseCfg, PriceResponseCfgListLink,
  ProjectionReadingListLink, RPLInstanceListLink, RPLSourceRoutesList, RPLSourceRoutesListLink,
  RateComponentListLink, Reading, ReadingListLink, ReadingSetBase, ReadingSetListLink,
  RespondableIdentifiedObject, RespondableSubscribableIdentifiedObject, ResponseList,
  ResponseListLink, ResponseSetListLink, ServiceSupplier, SubscribableIdentifiedObject,
  SubscribableList, Subscription, SubscriptionListLink, SupplyInterruptionOverrideList,
  SupplyInterruptionOverrideListLink, SupportedLocaleList, SupportedLocaleListLink,
  TargetReadingListLink, TariffProfileListLink, TextMessageListLink, TextResponse,
  TimeTariffIntervalListLink, UsagePointBase, UsagePointListLink, AbstractDevice,
  BillingMeterReadingBase, BillingPeriodList, BillingReadingList, BillingReadingSet,
  Configuration, CreditRegisterList, CustomerAccount, CustomerAgreement, DER, DERCurveList,
  DERProgram, DefaultDERControl, DemandResponseProgram, DeviceInformation, Event,
  FlowReservationRequestList, FunctionSetAssignmentsBase, IEEE_802_15_4, IPAddr, IPInterface,
  LoadShedAvailabilityList, LogEventList, MessagingProgram, MeterReading, MirrorReadingSet,
  NotificationList, PriceResponseCfgList, RPLInstance, RateComponent, ReadingList, ReadingSet,
  ResponseSet, ServiceSupplierList, SubscriptionList, TariffProfile, UsagePoint,
  BillingReadingSetList, CustomerAccountList, CustomerAgreementList, DERList, DERProgramList,
  DemandResponseProgramList, DeviceCapability, EndDevice, FlowReservationResponse,
  FunctionSetAssignments, HistoricalReading, IPAddrList, IPInterfaceList, LLInterface,
  MessagingProgramList, MeterReadingList, MirrorMeterReading, Prepayment, ProjectionReading,
  RPLInstanceList, RandomizableEvent, RateComponentList, ReadingSetList, ResponseSetList,
  SelfDevice, TargetReading, TariffProfileList, TextMessage, UsagePointList, DERControl,
  EndDeviceControl, EndDeviceList, FlowReservationResponseList, FunctionSetAssignmentsList,
  HistoricalReadingList, LLInterfaceList, MirrorMeterReadingList, MirrorUsagePoint,
  PrepaymentList, ProjectionReadingList, TargetReadingList, TextMessageList,
  TimeTariffInterval, DERControlList, EndDeviceControlList, MirrorUsagePointList,
  TimeTariffIntervalList, ForecastNumericType, DERForecastLink, ForecastParameter,
  DERFlexibility, ForecastParameterSet, ForecastParameterSetList, DERForecast}

ClassName == {c.name : c \in Classes}
Schema == [n \in ClassName |-> CHOOSE c \in Classes : c.name = n]

\* A class and those it inherits from.
Kinds[n \in ClassName] ==
  {n} \cup IF Schema[n].base = "" THEN {} ELSE Kinds[Schema[n].base]

IsA(n, k) == k \in Kinds[n] \* isinstance

\* Only Resource and Link declare an href.
HasHref(n) == IsA(n, "Resource") \/ IsA(n, "Link")

AllRequired(n) == UNION {Schema[k].required : k \in Kinds[n]}
AllLinks(n) == UNION {Schema[k].links : k \in Kinds[n]}
AllLists(n) == UNION {Schema[k].lists : k \in Kinds[n]}
=============================================================================
