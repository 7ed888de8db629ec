-------------------------- MODULE USBDescriptors ----------------------------
(***************************************************************************)
(* The descriptors of src/USB/CDC/cpp/descripter.cpp, byte by byte as the  *)
(* host reads them, and cb_get_descriptor_data.  A descriptor's first byte *)
(* is the size of its packed structure (src/USB/CDC/define.h); characters  *)
(* of a string are not told apart.                                         *)
(***************************************************************************)
EXTENDS Integers, Sequences, FiniteSets

Word(w) == <<w % 256, w \div 256>>

\* A packed structure: bLength = sizeof, bDescriptorType, the other fields.
Described(type, fields) == <<Len(fields) + 2, type>> \o fields

EpIn == 128                       \* USB_EP_DESCRIPTOR_DIR_IN_bm
SetupSize == 64                   \* USB_SETUP_PK_SIZE
IntrSize  == 16                   \* USB_INTR_PK_SIZE
DataSize  == 64                   \* USB_DATA_PK_SIZE
IntrInterval == 5                 \* USB_INTR_INTERVAL
CCI == 1                          \* USB_INTERFACE_ID_CDC_CCI
DCI == 2                          \* USB_INTERFACE_ID_CDC_DCI

\* USB_DTYPE_, USB_CSCP_ and USB_EP_TYPE_ of define.h.
DTYPE == [Device |-> 1, Configuration |-> 2, String |-> 3, Interface |-> 4, Endpoint |-> 5,
          Qualifier |-> 6, Association |-> 11, CSInterface |-> 36]
IADDevice == <<2, 0, 0>>
CDCClass  == <<2, 2, 1>>          \* and ACMSubclass, ATCommandProtocol
CDCData   == <<10, 0, 0>>
EP_TYPE == [Bulk |-> 2, Interrupt |-> 3]

\* The strings there are.
INDEX == [MANUFACTURER |-> 1, PRODUCT |-> 2, SERIALNUMBER |-> 3, DEVICENAME |-> 0]

-----------------------------------------------------------------------------
(* The structures of define.h.                                             *)
DeviceHeader(usb, class, size, ids, version, strings, configs) ==
  Described(DTYPE.Device, Word(usb) \o class \o <<size>> \o Word(ids[1]) \o Word(ids[2])
                            \o Word(version) \o strings \o <<configs>>)
Qualifier(usb, class, size, configs) ==
  Described(DTYPE.Qualifier, Word(usb) \o class \o <<size, configs, 0>>)
Association(first, count, class, name) ==
  Described(DTYPE.Association, <<first, count>> \o class \o <<name>>)
Interface(n, endpoints, class) ==
  Described(DTYPE.Interface, <<n, 0, endpoints>> \o class \o <<0>>)
Endpoint(address, attributes, size, interval) ==
  Described(DTYPE.Endpoint, <<address, attributes>> \o Word(size) \o <<interval>>)
Functional(fields) == Described(DTYPE.CSInterface, fields)

\* A string of n characters, two bytes each: bLength says `length'.
String(length, n) == <<length, DTYPE.String>> \o [k \in 1 .. 2 * n |-> 0]

\* The configuration and what follows it: wTotalLength counts its own bytes.
Configuration(interfaces, value, attributes, power, rest) ==
  Described(DTYPE.Configuration,
            Word(9 + Len(rest)) \o <<interfaces, value, 0, attributes, power>>) \o rest

-----------------------------------------------------------------------------
(* descripter.cpp.                                                         *)
language_string == String(2, 1)   \* its bLength is 2, 4 bytes are sent

\* USB 2.0; USB_VENDOR_ID and USB_PRODUCT_ID, 04D8:0B15; 0.1.
device_descriptor ==
  DeviceHeader(512, IADDevice, SetupSize, <<1240, 2837>>, 16,
         <<INDEX.MANUFACTURER, INDEX.PRODUCT, INDEX.SERIALNUMBER>>, 1)
devicequalifier_descriptor == Qualifier(512, IADDevice, SetupSize, 0)

CDC_IAD == Association(CCI, 2, CDCClass, INDEX.DEVICENAME)
CDC_Notification_Endpoint == Endpoint(1 + EpIn, EP_TYPE.Interrupt, IntrSize, IntrInterval)
CDC_DataOut_Endpoint == Endpoint(2, EP_TYPE.Bulk, DataSize, 0)
CDC_DataIn_Endpoint == Endpoint(2 + EpIn, EP_TYPE.Bulk, DataSize, 0)

Functions ==
  CDC_IAD \o Interface(CCI, 1, CDCClass)
    \o Functional(<<0>> \o Word(16)) \o Functional(<<2, 6>>) \o Functional(<<6, CCI, DCI>>)
    \o CDC_Notification_Endpoint
    \o Interface(DCI, 2, CDCData) \o CDC_DataOut_Endpoint \o CDC_DataIn_Endpoint

general_configuration_descriptor == Configuration(2, 1, 0, 50, Functions)

\* What wValue asks for: type and index.
DeviceValue == 256 * DTYPE.Device
ConfigValue == 256 * DTYPE.Configuration
QualifierValue == 256 * DTYPE.Qualifier
StringValue(i) == 256 * DTYPE.String + i

\* The payload; <<>> for what there is not.  The serial number's bLength is
\* 64, and 66 bytes are sent.
cb_get_descriptor_data(value) ==
  CASE value = DeviceValue    -> device_descriptor
    [] value = ConfigValue    -> general_configuration_descriptor
    [] value = QualifierValue -> devicequalifier_descriptor
    [] value = StringValue(0) -> language_string
    [] value = StringValue(INDEX.MANUFACTURER) -> String(52, 25)
    [] value = StringValue(INDEX.PRODUCT) -> String(52, 25)
    [] value = StringValue(INDEX.SERIALNUMBER) -> String(64, 32)
    [] OTHER -> <<>>

-----------------------------------------------------------------------------
(* How the host reads a configuration: from descriptor to descriptor, by   *)
(* the length each begins with.                                            *)
Starts(b) ==
  LET next(p) == IF p > Len(b) THEN p ELSE p + b[p]
      at[k \in Nat] == IF k = 0 THEN 1 ELSE next(at[k - 1])
  IN  {at[k] : k \in 0 .. Len(b) \div 4} \cap 1 .. Len(b)

TotalLength(b) == b[3] + 256 * b[4]

Endpoints(b) ==
  LET of == {p \in Starts(b) : b[p + 1] = DTYPE.Endpoint /\ p + 6 <= Len(b)}
  IN  {<<b[p + 2], b[p + 4] + 256 * b[p + 5]>> : p \in of}

\* Every interface says how many endpoints follow it, and the configuration
\* how many interfaces and bytes.
WellFormed(b) ==
  LET faces == {p \in Starts(b) : b[p + 1] = DTYPE.Interface}
      after(p) == {q \in Starts(b) : q > p /\ b[q + 1] = DTYPE.Endpoint /\ \A f \in faces : f > p => q < f}
  IN  /\ TotalLength(b) = Len(b) /\ b[5] = Cardinality(faces)
      /\ \A p \in faces : b[p + 4] = Cardinality(after(p))
      /\ \A p \in Starts(b) : p + b[p] <= Len(b) + 1
\* What the host understands of the configuration, when it has all of it.
Known == Endpoints(general_configuration_descriptor)
Sound == WellFormed(general_configuration_descriptor)
=============================================================================
