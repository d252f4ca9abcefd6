------------------------------ MODULE Descriptors ------------------------------
(* usb.c and usb.h: what the device tells the host of itself.  A structure is  *)
(* the widths of its fields in bytes, a descriptor the fields a host looks at. *)
EXTENDS Endpoint, FiniteSets

\* The sums of the first elements of s: of none, of one, and so on.
Sums(s) == LET sum[i \in 0 .. Len(s)] == IF i = 0 THEN 0 ELSE sum[i - 1] + s[i] IN sum

sizeof(type) == Sums(type)[Len(type)]

-----------------------------------------------------------------------------
(* usb.h: the packed structures.                                               *)

USB_DEV_DSC == <<1, 1, 2, 1, 1, 1, 1, 2, 2, 2, 1, 1, 1, 1>>
USB_CFG_DSC == <<1, 1, 2, 1, 1, 1, 1, 1>>
USB_INTF_DSC == <<1, 1, 1, 1, 1, 1, 1, 1, 1>>
USB_EP_DSC == <<1, 1, 1, 1, 2, 1>>
USB_CDC_HEADER_FN_DSC == <<1, 1, 1, 2>>
USB_CDC_CALL_MGT_FN_DSC == <<1, 1, 1, 1, 1>>
USB_CDC_ACM_FN_DSC == <<1, 1, 1, 1>>
USB_CDC_UNION_FN_DSC == <<1, 1, 1, 1, 1>>

\* Descriptor types.
mDEVICE == 1
mCONFIGURATION == 2
mSTRING == 3
mINTERFACE == 4
mENDPOINT == 5
CS_INTERFACE == 36

-----------------------------------------------------------------------------
(* usb.c: the descriptors.                                                     *)

device_descriptor ==
  [bLength |-> sizeof(USB_DEV_DSC), bDscType |-> mDEVICE, bMaxPktSize0 |-> EP0_BUFSIZE,
   iMFR |-> 1, iProduct |-> 2, iSerialNum |-> 3, bNumCfg |-> 1]

CDC_STATUS_INTERFACE == 0
CDC_DATA_INTERFACE == 1
CDC_ACM_ENDPOINT == 1
CDC_RX_ENDPOINT == 2
CDC_TX_ENDPOINT == 2
CDC_ACM_SIZE == 16
CDC_RX_SIZE == 64
CDC_TX_SIZE == 64

USB_CONFIG == <<USB_CFG_DSC, USB_INTF_DSC, USB_CDC_HEADER_FN_DSC, USB_CDC_CALL_MGT_FN_DSC,
                USB_CDC_ACM_FN_DSC, USB_CDC_UNION_FN_DSC, USB_EP_DSC, USB_INTF_DSC,
                USB_EP_DSC, USB_EP_DSC>>

\* The place of descriptor i in the structure, and the end of the last one.
Offset == LET sizes == [i \in DOMAIN USB_CONFIG |-> sizeof(USB_CONFIG[i])]
          IN  [i \in 1 .. Len(USB_CONFIG) + 1 |-> Sums(sizes)[i - 1]]

Interface(number, endpoints) ==
  [bLength |-> sizeof(USB_INTF_DSC), bDscType |-> mINTERFACE, bIntfNum |-> number,
   bNumEPs |-> endpoints]

\* A functional descriptor names the interfaces it is about.
Functional(type, interfaces) ==
  [bLength |-> sizeof(type), bDscType |-> CS_INTERFACE, interfaces |-> interfaces]

\* bEPAdr is the number, with 0x80 for the direction to the host.
ToDevice(number, size) ==
  [bLength |-> sizeof(USB_EP_DSC), bDscType |-> mENDPOINT, number |-> number, tx |-> FALSE,
   wMaxPktSize |-> size]

ToHost(number, size) == [ToDevice(number, size) EXCEPT !.tx = TRUE]

config_descriptor ==
  << [bLength |-> sizeof(USB_CFG_DSC), bDscType |-> mCONFIGURATION,
      wTotalLength |-> Offset[Len(USB_CONFIG) + 1], bNumIntf |-> 2, bCfgValue |-> 1],
     Interface(CDC_STATUS_INTERFACE, 1),
     Functional(USB_CDC_HEADER_FN_DSC, {}),
     Functional(USB_CDC_CALL_MGT_FN_DSC, {1}),
     Functional(USB_CDC_ACM_FN_DSC, {}),
     Functional(USB_CDC_UNION_FN_DSC, {CDC_STATUS_INTERFACE, CDC_DATA_INTERFACE}),
     ToHost(CDC_ACM_ENDPOINT, CDC_ACM_SIZE),
     Interface(CDC_DATA_INTERFACE, 2),
     ToDevice(CDC_RX_ENDPOINT, CDC_RX_SIZE),
     ToHost(CDC_TX_ENDPOINT, CDC_TX_SIZE) >>

\* A string of n characters, two bytes each.
USB_STRING(n) == [bLength |-> 2 * n + 2]

manufacturer == USB_STRING(17)
product == USB_STRING(4)
serial == USB_STRING(1)
string0 == [bLength |-> 4]

Entry(type, index, length, descriptor) ==
  [wValue |-> <<type, index>>, length |-> length, addr |-> descriptor]

\* Mutant: the entry of the configuration leaves the length to the descriptor.
BugOwnLength ==
  { Entry(mDEVICE, 0, sizeof(USB_DEV_DSC), device_descriptor),
    Entry(mCONFIGURATION, 0, 0, config_descriptor[1]),
    Entry(mSTRING, 0, 0, string0), Entry(mSTRING, 1, 0, manufacturer),
    Entry(mSTRING, 2, 0, product), Entry(mSTRING, 3, 0, serial) }

\* Mutant: a string is missing.
BugNoSerial ==
  { Entry(mDEVICE, 0, sizeof(USB_DEV_DSC), device_descriptor),
    Entry(mCONFIGURATION, 0, Offset[Len(USB_CONFIG) + 1], config_descriptor[1]),
    Entry(mSTRING, 0, 0, string0), Entry(mSTRING, 1, 0, manufacturer),
    Entry(mSTRING, 2, 0, product) }

\* With length 0 the descriptor's own first byte is its length.
usb_descriptor_list ==
  { Entry(mDEVICE, 0, sizeof(USB_DEV_DSC), device_descriptor),
    Entry(mCONFIGURATION, 0, Offset[Len(USB_CONFIG) + 1], config_descriptor[1]),
    Entry(mSTRING, 0, 0, string0), Entry(mSTRING, 1, 0, manufacturer),
    Entry(mSTRING, 2, 0, product), Entry(mSTRING, 3, 0, serial) }

\* mGET_DESC: the bytes sent, or no answer.
Implemented(wValue) == \E p \in usb_descriptor_list : p.wValue = wValue

GetDescriptor(wValue, wLength) ==
  LET p == CHOOSE e \in usb_descriptor_list : e.wValue = wValue
  IN  MinOf(IF p.length = 0 THEN p.addr.bLength ELSE p.length, wLength)

-----------------------------------------------------------------------------
(* The host reads the first n bytes of the configuration: it steps from        *)
(* descriptor to descriptor by bLength, and stops where it finds none.         *)

StartsAt(offset) == {i \in DOMAIN USB_CONFIG : Offset[i] = offset}

Step(offset) ==
  IF StartsAt(offset) = {} THEN offset
  ELSE offset + config_descriptor[CHOOSE i \in StartsAt(offset) : TRUE].bLength

\* The offsets it comes to.
Walk == LET f[k \in 0 .. Len(USB_CONFIG)] == IF k = 0 THEN 0 ELSE Step(f[k - 1])
        IN  {f[k] : k \in 0 .. Len(USB_CONFIG)}

\* The descriptors it finds whole, by place, and whether they are all of the n bytes.
Found(n) == {i \in DOMAIN USB_CONFIG :
               Offset[i] \in Walk /\ Offset[i] + config_descriptor[i].bLength <= n}

Complete(n) == n \in Walk

OfType(n, type) == {i \in Found(n) : config_descriptor[i].bDscType = type}

\* The endpoints after an interface belong to it.
EndpointsOf(n, i) ==
  {e \in OfType(n, mENDPOINT) :
     e > i /\ \A other \in OfType(n, mINTERFACE) : ~(i < other /\ other < e)}
=============================================================================
