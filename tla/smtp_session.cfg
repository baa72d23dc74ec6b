SPECIFICATION Spec
CONSTANTS
  MaxMails = 3
  MaxRecipients = 2
  LineLengths = {1, 2}
  MaxSent = 3
  SizeLimit = 2
INVARIANTS
  NoMixedEnvelope
  PublishedOnce
  AckedIsPublished
  PublishedBody
