SPECIFICATION FairWaitSpec
CONSTANTS
  Waiter = {w1, w2}
  MaxMail = 3
  MaxFaults = 2
  ConcurrentArms = FALSE
 
PROPERTIES MailWakes
