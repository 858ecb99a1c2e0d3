SPECIFICATION Spec
CONSTANTS
  a = a  b = b  c = c
  ca = ca  cb = cb  cc = cc
  Login = {a, b}
  Cert = {ca, cb}
  CertOf <- OwnCertificates
  Together = 2
  MaxLogins = 1
PROPERTIES AnswersAreRight
