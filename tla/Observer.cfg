SPECIFICATION Spec
CONSTANTS
  Persistent = {primary, secondary}
  temporary = temporary
  Messages = 3
  Unsubscribes = {TRUE, FALSE}
INVARIANTS NoDanglingCall AtMostOneLate SubscribersHearAll
