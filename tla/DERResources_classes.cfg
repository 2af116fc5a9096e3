SPECIFICATION Spec
CONSTANTS
  d1 = d1  h1 = h1  v1 = v1  v2 = v2
  DERs = {d1}
  SubType <- SubTypes
  NoneAvailable = "none"
  Type <- Types
  Subclass <- Lineage
  Addressed <- WithHref
  Href = {h1}
  Path = Path
  NoHref = NoHref
  Body = {v1, v2}
  Offered <- Documents
  Nobody = Nobody
INVARIANTS ReadsWhatItWrote
PROPERTIES ServedNarrows StoreSpec
